---- MODULE Spec2Model ----
(***************************************************************************)
(* A model of pelite: the mapped view's checked readers (pe64/peview.rs),  *)
(* the file loader PeFile::open (pe32/pefile.rs) and the decoder entry     *)
(* points (imports, exports, relocs, resources).                           *)
(*                                                                         *)
(* Byte buffers are sequences of bytes; offset o of a buffer b is b[o+1].  *)
(* Multi-byte integers are little-endian, structures are packed.           *)
(***************************************************************************)
EXTENDS Integers, Sequences, FiniteSets, TLC

VARIABLES
    image,      \* PeView.image: the mapped byte buffer the view borrows
    build,      \* "debug" (overflow checks on) or "release" (wrapping arithmetic)
    call,       \* the reader or entry point that was called last, with its arguments
    ret,        \* what that call produced
    file,       \* the file PeFile::open reads: [present, bytes]
    fpos,       \* the read position of the open file
    buf,        \* PeFile::open's Vec<u8>
    pc,         \* where PeFile::open stands
    loc,        \* its locals: e_lfanew, nt_bytes, hdr_bytes, img_bytes, sec_begin, sec_num, i
    result,     \* what PeFile::open returned: Ok, Io, BadMagic, Insanity, or Panic
    iter        \* the iterator in use: kind, descriptor, position, items yielded, last item, status

viewVars == <<image, build, call, ret, iter>>

openVars == <<file, fpos, buf, pc, loc, result>>

vars == <<image, build, call, ret, file, fpos, buf, pc, loc, result, iter>>

----------------------------------------------------------------------------
(* Bounds of the model.                                                    *)

\* Width of usize in bits, scaled down so that TLC reaches the wrap-around.
UsizeBits == 9
\* Longest buffer handed to the view in SpecView.
MaxLen == 4
\* Largest rva passed to a reader.
MaxRva == 5
\* Largest element count passed to read_slice.
MaxCount == 4

UsizeMod == 2 ^ UsizeBits

\* Bytes the buffers of SpecView are made of: NUL, 'A', and the two bytes of
\* U+00E9 in UTF-8 (0xC3 0xA9), each of which alone is invalid UTF-8.
ViewBytes == {0, 65, 195, 169}

Builds == {"debug", "release"}

----------------------------------------------------------------------------
(* Element types the repository instantiates the readers with:             *)
(* [size |-> mem::size_of::<T>(), align |-> mem::align_of::<T>()].          *)
(* Every image structure is #[repr(C, packed)], so its alignment is 1.     *)

T_u8  == [name |-> "u8",  size |-> 1, align |-> 1]
T_u16 == [name |-> "u16", size |-> 2, align |-> 2]
T_Rva == [name |-> "Rva", size |-> 4, align |-> 4]
T_Va  == [name |-> "Va",  size |-> 8, align |-> 8]
T_ImageBaseRelocation   == [name |-> "ImageBaseRelocation",   size |-> 8,  align |-> 1]
T_ImageImportDescriptor == [name |-> "ImageImportDescriptor", size |-> 20, align |-> 1]
T_ImageExportDirectory  == [name |-> "ImageExportDirectory",  size |-> 40, align |-> 1]

Types == {T_u8, T_u16, T_Rva, T_Va, T_ImageBaseRelocation, T_ImageImportDescriptor}

BADRVA == 0

At(b, off) == b[off + 1]

Bytes(b, off, n) == [i \in 1..n |-> b[off + i]]

----------------------------------------------------------------------------
(* What a reader returns: None, a panic (the hard failure of a failed      *)
(* assert!, index or unwrap), or Some reference to `size` bytes at `off`.  *)
(* `reads` are the buffer offsets the call inspected, `val` the bytes of   *)
(* the string read_str returns.                                            *)

\* No iterator has been made.
NoIter ==
    [kind |-> "none", desc |-> 0, pos |-> 0, n |-> 0, item |-> <<>>, status |-> "none"]

NoRef == [kind |-> "None", off |-> 0, size |-> 0, reads |-> {}, val |-> <<>>]
Panic(reads) == [kind |-> "Panic", off |-> 0, size |-> 0, reads |-> reads, val |-> <<>>]
Ref(off, size, reads, val) ==
    [kind |-> "Some", off |-> off, size |-> size, reads |-> reads, val |-> val]

\* a * b and a - b on usize: [ok |-> FALSE] is the overflow panic of a debug
\* build; a release build wraps.
usize_mul(bld, a, b) ==
    IF bld = "debug" /\ a * b >= UsizeMod
    THEN [ok |-> FALSE, val |-> 0]
    ELSE [ok |-> TRUE, val |-> (a * b) % UsizeMod]

usize_sub(bld, a, b) ==
    IF bld = "debug" /\ a < b
    THEN [ok |-> FALSE, val |-> 0]
    ELSE [ok |-> TRUE, val |-> (a - b + UsizeMod) % UsizeMod]

\* read_struct<T>(rva). The reference is a pointer cast: no byte is read.
read_struct(im, bld, T, rva) ==
    IF rva = BADRVA THEN NoRef
    ELSE LET lim == usize_sub(bld, Len(im), T.size)
         IN  IF ~lim.ok THEN Panic({})
             ELSE IF ~(rva <= lim.val) THEN Panic({})
             ELSE IF ~(rva % T.align = 0) THEN Panic({})
             ELSE Ref(rva, T.size, {}, <<>>)

\* read_slice with the BADRVA test left out.
SliceWithoutBadRvaTest(im, bld, T, rva, len) ==
    LET bytes == usize_mul(bld, T.size, len)
        lim   == usize_sub(bld, Len(im), bytes.val)
    IN  IF ~bytes.ok \/ ~lim.ok THEN Panic({})
        ELSE IF ~(rva <= lim.val) THEN Panic({})
        ELSE IF ~(rva % T.align = 0) THEN Panic({})
        ELSE Ref(rva, T.size * len, {}, <<>>)

\* read_slice<T>(rva, len): a slice of len elements, T.size * len bytes.
read_slice(im, bld, T, rva, len) ==
    IF rva = BADRVA THEN NoRef
    ELSE LET bytes == usize_mul(bld, T.size, len)
             lim   == usize_sub(bld, Len(im), bytes.val)
         IN  IF ~bytes.ok \/ ~lim.ok THEN Panic({})
             ELSE IF ~(rva <= lim.val) THEN Panic({})
             ELSE IF ~(rva % T.align = 0) THEN Panic({})
             ELSE Ref(rva, T.size * len, {}, <<>>)

----------------------------------------------------------------------------
(* str::from_utf8: well-formed UTF-8 byte sequences (Unicode table 3-7).   *)

Cont(x) == x >= 128 /\ x <= 191

RECURSIVE from_utf8_ok(_)
from_utf8_ok(s) ==
    IF s = <<>> THEN TRUE
    ELSE LET b == s[1]
             n == Len(s)
             rest(k) == SubSeq(s, k + 1, n)
         IN  IF b <= 127 THEN from_utf8_ok(rest(1))
             ELSE IF b >= 194 /\ b <= 223
                  THEN n >= 2 /\ Cont(s[2]) /\ from_utf8_ok(rest(2))
             ELSE IF b >= 224 /\ b <= 239
                  THEN /\ n >= 3
                       /\ Cont(s[2]) /\ Cont(s[3])
                       /\ (b = 224 => s[2] >= 160)
                       /\ (b = 237 => s[2] <= 159)
                       /\ from_utf8_ok(rest(3))
             ELSE IF b >= 240 /\ b <= 244
                  THEN /\ n >= 4
                       /\ Cont(s[2]) /\ Cont(s[3]) /\ Cont(s[4])
                       /\ (b = 240 => s[2] >= 144)
                       /\ (b = 244 => s[2] <= 143)
                       /\ from_utf8_ok(rest(4))
             ELSE FALSE

\* The scan of read_str: `self.image[rva + i]` is a bounds-checked index,
\* which panics at the first offset outside the buffer.
RECURSIVE scan_nul(_, _, _)
scan_nul(im, rva, i) ==
    IF rva + i >= Len(im) THEN [found |-> FALSE, i |-> i]
    ELSE IF At(im, rva + i) = 0 THEN [found |-> TRUE, i |-> i]
    ELSE scan_nul(im, rva, i + 1)

\* read_str with the scan started one byte late.
StrFromSecondByte(im, rva) ==
    IF rva = BADRVA THEN NoRef
    ELSE LET s == scan_nul(im, rva + 1, 0)
             inspected == {o \in 0..(Len(im) - 1) : o > rva /\ o <= rva + 1 + s.i}
         IN  IF ~s.found THEN Panic(inspected)
             ELSE IF ~from_utf8_ok(Bytes(im, rva + 1, s.i)) THEN Panic(inspected)
             ELSE Ref(rva + 1, s.i, inspected, Bytes(im, rva + 1, s.i))

\* read_str(rva): the bytes from rva up to the first NUL, unwrapped from
\* str::from_utf8.
read_str(im, rva) ==
    IF rva = BADRVA THEN NoRef
    ELSE LET s == scan_nul(im, rva, 0)
             inspected == {o \in 0..(Len(im) - 1) : o >= rva /\ o <= rva + s.i}
         IN  IF ~s.found THEN Panic(inspected)
             ELSE IF ~from_utf8_ok(Bytes(im, rva, s.i)) THEN Panic(inspected)
             ELSE Ref(rva, s.i, inspected, Bytes(im, rva, s.i))

----------------------------------------------------------------------------
(* Image structures (image.rs): sizes and field offsets of the packed      *)
(* layouts, and little-endian field access.                                *)

IMAGE_DOS_HEADER_MAGIC == 23117             \* 0x5A4D
IMAGE_NT_HEADERS_SIGNATURE == 17744         \* 0x00004550
IMAGE_NT_OPTIONAL_HDR32_MAGIC == 267        \* 0x10b
IMAGE_NT_OPTIONAL_HDR64_MAGIC == 523        \* 0x20b
IMAGE_NUMBEROF_DIRECTORY_ENTRIES == 16

SizeOf_ImageDosHeader == 64
SizeOf_ImageFileHeader == 20
SizeOf_ImageOptionalHeader32 == 224
SizeOf_ImageNtHeaders32 == 248
SizeOf_ImageSectionHeader == 40

Off_e_magic == 0
Off_e_lfanew == 60
\* ImageNtHeaders32
Off_Signature == 0
Off_FileHeader == 4
Off_OptionalHeader == 24
\* ImageFileHeader
Off_NumberOfSections == 2
Off_SizeOfOptionalHeader == 16
\* ImageOptionalHeader32
Off_Magic == 0
Off_SizeOfImage == 56
Off_SizeOfHeaders == 60
Off_NumberOfRvaAndSizes == 92
Off_DataDirectory == 96
\* ImageSectionHeader
Off_VirtualSize == 8
Off_VirtualAddress == 12
Off_SizeOfRawData == 16
Off_PointerToRawData == 20

U16At(b, off) == b[off + 1] + 256 * b[off + 2]

U32At(b, off) == U16At(b, off) + 65536 * U16At(b, off + 2)

\* The section header at index k of the table at sec_begin.
SectionAt(b, sec_begin, k) ==
    LET at == sec_begin + k * SizeOf_ImageSectionHeader
    IN  [VirtualSize      |-> U32At(b, at + Off_VirtualSize),
         VirtualAddress   |-> U32At(b, at + Off_VirtualAddress),
         SizeOfRawData    |-> U32At(b, at + Off_SizeOfRawData),
         PointerToRawData |-> U32At(b, at + Off_PointerToRawData)]

----------------------------------------------------------------------------
(* Vec<u8> and File operations used by the loader.                         *)

Zeros(n) == [i \in 1..n |-> 0]

\* Vec::resize(n, 0): truncate, or extend with zero bytes.
resize(v, n) == [i \in 1..n |-> IF i <= Len(v) THEN v[i] ELSE 0]

\* The bytes of v with [begin, end) replaced by data.
Splice(v, begin, data) ==
    [i \in 1..Len(v) |->
        IF i > begin /\ i <= begin + Len(data) THEN data[i - begin] ELSE v[i]]

\* file.read_exact of n bytes at position pos: an error at end of file.
read_exact(f, pos, n) ==
    IF pos + n <= Len(f.bytes)
    THEN [ok |-> TRUE,  data |-> Bytes(f.bytes, pos, n)]
    ELSE [ok |-> FALSE, data |-> <<>>]

----------------------------------------------------------------------------
(* PeFile::open (pe32/pefile.rs), one action per stage.                    *)

Loc0 == [e_lfanew |-> 0, nt_bytes |-> 0, hdr_bytes |-> 0, img_bytes |-> 0,
         sec_begin |-> 0, sec_num |-> 0, i |-> 0]

\* An early return or a panic: the buffer is dropped and the call is over;
\* pc stays at the stage that ended it.
Return(r) ==
    /\ result' = r
    /\ pc' = pc
    /\ buf' = <<>>

\* File::open(path)
OpenFile ==
    /\ pc = "open" /\ result = "none"
    /\ IF file.present
       THEN /\ pc' = "read_dos"
            /\ UNCHANGED <<buf, result>>
       ELSE Return("Io")
    /\ UNCHANGED <<file, fpos, loc>>
    /\ UNCHANGED viewVars

\* Read DOS header
ReadDosHeader ==
    /\ pc = "read_dos" /\ result = "none"
    /\ LET dos_bytes == SizeOf_ImageDosHeader
           rd == read_exact(file, fpos, dos_bytes)
       IN  IF rd.ok
           THEN /\ buf' = Splice(resize(buf, dos_bytes), 0, rd.data)
                /\ fpos' = fpos + dos_bytes
                /\ pc' = "check_dos"
                /\ UNCHANGED result
           ELSE Return("Io") /\ UNCHANGED fpos
    /\ UNCHANGED <<file, loc>>
    /\ UNCHANGED viewVars

\* The e_lfanew test with 0x200 itself rejected.
LfanewBelow0x200(e_lfanew) == e_lfanew = 0 \/ e_lfanew >= 512

\* `dos.e_lfanew == 0 || dos.e_lfanew > 0x200`
e_lfanew_insane(e_lfanew) == e_lfanew = 0 \/ e_lfanew > 512

\* Get offset to NT headers
CheckDosHeader ==
    /\ pc = "check_dos" /\ result = "none"
    /\ LET e_magic  == U16At(buf, Off_e_magic)
           e_lfanew == U32At(buf, Off_e_lfanew)
       IN  IF e_magic # IMAGE_DOS_HEADER_MAGIC
           THEN Return("BadMagic") /\ UNCHANGED loc
           ELSE IF e_lfanew_insane(e_lfanew)
           THEN Return("Insanity") /\ UNCHANGED loc
           ELSE /\ loc' = [loc EXCEPT !.e_lfanew = e_lfanew]
                /\ pc' = "read_nt"
                /\ UNCHANGED <<buf, result>>
    /\ UNCHANGED <<file, fpos>>
    /\ UNCHANGED viewVars

\* Read up to and including NT headers
ReadNtHeaders ==
    /\ pc = "read_nt" /\ result = "none"
    /\ LET dos_bytes == SizeOf_ImageDosHeader
           nt_bytes  == loc.e_lfanew + SizeOf_ImageNtHeaders32
           rd == read_exact(file, fpos, nt_bytes - dos_bytes)
       IN  IF rd.ok
           THEN /\ buf' = Splice(resize(buf, nt_bytes), dos_bytes, rd.data)
                /\ fpos' = fpos + (nt_bytes - dos_bytes)
                /\ loc' = [loc EXCEPT !.nt_bytes = nt_bytes]
                /\ pc' = "check_nt"
                /\ UNCHANGED result
           ELSE Return("Io") /\ UNCHANGED <<fpos, loc>>
    /\ UNCHANGED file
    /\ UNCHANGED viewVars

\* The sanity bounds with NumberOfRvaAndSizes = 16 rejected.
SanityRejecting16Dirs(SizeOfHeaders, NumberOfRvaAndSizes, SizeOfOptionalHeader, NumberOfSections) ==
    \/ SizeOfHeaders > 4096
    \/ NumberOfRvaAndSizes >= IMAGE_NUMBEROF_DIRECTORY_ENTRIES
    \/ SizeOfOptionalHeader < SizeOf_ImageOptionalHeader32
    \/ NumberOfSections > 100

\* "These sanity checks are arbitrary as based on experience"
nt_insane(SizeOfHeaders, NumberOfRvaAndSizes, SizeOfOptionalHeader, NumberOfSections) ==
    \/ SizeOfHeaders > 4096
    \/ NumberOfRvaAndSizes > IMAGE_NUMBEROF_DIRECTORY_ENTRIES
    \/ SizeOfOptionalHeader < SizeOf_ImageOptionalHeader32
    \/ NumberOfSections > 100

\* Get NT headers information
CheckNtHeaders ==
    /\ pc = "check_nt" /\ result = "none"
    /\ LET nt  == loc.e_lfanew
           fh  == nt + Off_FileHeader
           opt == nt + Off_OptionalHeader
           Signature            == U32At(buf, nt + Off_Signature)
           Magic                == U16At(buf, opt + Off_Magic)
           SizeOfHeaders        == U32At(buf, opt + Off_SizeOfHeaders)
           SizeOfImage          == U32At(buf, opt + Off_SizeOfImage)
           NumberOfRvaAndSizes  == U32At(buf, opt + Off_NumberOfRvaAndSizes)
           SizeOfOptionalHeader == U16At(buf, fh + Off_SizeOfOptionalHeader)
           NumberOfSections     == U16At(buf, fh + Off_NumberOfSections)
           sec_begin == loc.e_lfanew
                        + (SizeOf_ImageNtHeaders32 - SizeOf_ImageOptionalHeader32)
                        + SizeOfOptionalHeader
           sec_end   == sec_begin + NumberOfSections * SizeOf_ImageSectionHeader
       IN  IF Signature # IMAGE_NT_HEADERS_SIGNATURE \/ Magic # IMAGE_NT_OPTIONAL_HDR32_MAGIC
           THEN Return("BadMagic") /\ UNCHANGED loc
           ELSE IF nt_insane(SizeOfHeaders, NumberOfRvaAndSizes, SizeOfOptionalHeader, NumberOfSections)
           THEN Return("Insanity") /\ UNCHANGED loc
           ELSE IF sec_end > SizeOfHeaders
           THEN Return("Insanity") /\ UNCHANGED loc
           ELSE /\ loc' = [loc EXCEPT !.hdr_bytes = SizeOfHeaders,
                                      !.img_bytes = SizeOfImage,
                                      !.sec_begin = sec_begin,
                                      !.sec_num = NumberOfSections]
                /\ pc' = "read_sections"
                /\ UNCHANGED <<buf, result>>
    /\ UNCHANGED <<file, fpos>>
    /\ UNCHANGED viewVars

\* buf.resize with the size of the headers in place of the size of the image.
AllocHeadersOnly(hdr_bytes, img_bytes) == hdr_bytes

\* `buf.resize(img_bytes as usize, 0)`
alloc_len(hdr_bytes, img_bytes) == img_bytes

\* Allocate memory for entire image, read the section headers.
\* `&mut buf[nt_bytes..hdr_bytes]` panics when the range is not inside buf.
ReadSectionHeaders ==
    /\ pc = "read_sections" /\ result = "none"
    /\ LET whole == resize(buf, alloc_len(loc.hdr_bytes, loc.img_bytes))
           rd == read_exact(file, fpos, loc.hdr_bytes - loc.nt_bytes)
       IN  IF loc.nt_bytes > loc.hdr_bytes \/ loc.hdr_bytes > Len(whole)
           THEN Return("Panic") /\ UNCHANGED <<fpos, loc>>
           ELSE IF ~rd.ok
           THEN Return("Io") /\ UNCHANGED <<fpos, loc>>
           ELSE /\ buf' = Splice(whole, loc.nt_bytes, rd.data)
                /\ fpos' = fpos + (loc.hdr_bytes - loc.nt_bytes)
                /\ loc' = [loc EXCEPT !.i = 0]
                /\ pc' = "map_sections"
                /\ UNCHANGED result
    /\ UNCHANGED file
    /\ UNCHANGED viewVars

\* The section test with VirtualAddress = min_rva rejected.
SectionAtMinRvaInsane(it, min_rva) == it.VirtualAddress <= min_rva \/ it.VirtualSize = 0

\* The section test without the comparison with min_rva.
SectionSizeOnlyInsane(it, min_rva) == it.VirtualSize = 0

\* `it.VirtualAddress < min_rva || it.VirtualSize == 0`
section_insane(it, min_rva) == it.VirtualAddress < min_rva \/ it.VirtualSize = 0

\* The destination of a section's raw data with the previous section's
\* address used.
RawAfterHeaders(it, min_rva) == min_rva

\* `let begin = it.VirtualAddress as usize;`
raw_begin(it, min_rva) == it.VirtualAddress

\* map_sections: one iteration of `for it in sections`. The section table
\* is a slice of buf itself.
MapSection ==
    /\ pc = "map_sections" /\ result = "none"
    /\ loc.i < loc.sec_num
    /\ LET it == SectionAt(buf, loc.sec_begin, loc.i)
           min_rva == loc.hdr_bytes
           begin == raw_begin(it, min_rva)
           end   == begin + it.SizeOfRawData
           rd    == read_exact(file, it.PointerToRawData, it.SizeOfRawData)
       IN  IF section_insane(it, min_rva)
           THEN Return("Insanity") /\ UNCHANGED <<fpos, loc>>
           ELSE IF it.PointerToRawData = 0
           THEN /\ loc' = [loc EXCEPT !.i = loc.i + 1]
                /\ UNCHANGED <<buf, fpos, pc, result>>
           ELSE IF end > Len(buf)
           THEN Return("Panic") /\ UNCHANGED <<fpos, loc>>
           ELSE IF ~rd.ok
           THEN Return("Io") /\ UNCHANGED <<fpos, loc>>
           ELSE /\ buf' = Splice(buf, begin, rd.data)
                /\ fpos' = it.PointerToRawData + it.SizeOfRawData
                /\ loc' = [loc EXCEPT !.i = loc.i + 1]
                /\ UNCHANGED <<pc, result>>
    /\ UNCHANGED file
    /\ UNCHANGED viewVars

\* Done at last: Ok(PeFile { buf: buf })
Finish ==
    /\ pc = "map_sections" /\ result = "none"
    /\ loc.i = loc.sec_num
    /\ result' = "Ok"
    /\ pc' = "done"
    /\ UNCHANGED <<file, fpos, buf, loc>>
    /\ UNCHANGED viewVars

NextOpen ==
    \/ OpenFile \/ ReadDosHeader \/ CheckDosHeader \/ ReadNtHeaders
    \/ CheckNtHeaders \/ ReadSectionHeaders \/ MapSection \/ Finish

----------------------------------------------------------------------------
(* The view's navigation (pe64/peview.rs) and the decoder entry points.    *)

SizeOf_ImageNtHeaders64 == 264
SizeOf_ImageOptionalHeader64 == 240
SizeOf_ImageDataDirectory == 8
\* ImageOptionalHeader64
Off64_NumberOfRvaAndSizes == 108
Off64_DataDirectory == 112
\* ImageDataDirectory
Off_Size == 4

IMAGE_DIRECTORY_ENTRY_EXPORT == 0
IMAGE_DIRECTORY_ENTRY_IMPORT == 1
IMAGE_DIRECTORY_ENTRY_RESOURCE == 2
IMAGE_DIRECTORY_ENTRY_BASERELOC == 5

\* optional_header(): offset of &nt_headers().OptionalHeader in the image.
optional_header(im) == U32At(im, Off_e_lfanew) + Off_OptionalHeader

\* data_directory().len(): NumberOfRvaAndSizes entries.
data_directory_len(im) == U32At(im, optional_header(im) + Off64_NumberOfRvaAndSizes)

\* slice::get with the index one past the end taken as present.
GetInclusive(im, idx) ==
    LET at == optional_header(im) + Off64_DataDirectory + idx * SizeOf_ImageDataDirectory
    IN  IF idx <= data_directory_len(im)
        THEN [present |-> TRUE,
              VirtualAddress |-> U32At(im, at), Size |-> U32At(im, at + Off_Size)]
        ELSE [present |-> FALSE, VirtualAddress |-> 0, Size |-> 0]

\* data_directory().get(idx): the entry at idx, if the slice is that long.
data_directory_get(im, idx) ==
    LET at == optional_header(im) + Off64_DataDirectory + idx * SizeOf_ImageDataDirectory
    IN  IF idx < data_directory_len(im)
        THEN [present |-> TRUE,
              VirtualAddress |-> U32At(im, at), Size |-> U32At(im, at + Off_Size)]
        ELSE [present |-> FALSE, VirtualAddress |-> 0, Size |-> 0]

\* A directory handle: Some(.. { view_, datadir_ }).
Handle(datadir) == Ref(datadir.VirtualAddress, datadir.Size, {}, <<>>)

\* Option::unwrap of a reader's result inside an entry point.
Unwrapped(r, datadir) == IF r.kind = "Some" THEN Handle(datadir) ELSE Panic({})

imports(im) ==
    LET datadir == data_directory_get(im, IMAGE_DIRECTORY_ENTRY_IMPORT)
    IN  IF datadir.present
        THEN IF datadir.VirtualAddress # BADRVA THEN Handle(datadir) ELSE NoRef
        ELSE NoRef

exports(im, bld) ==
    LET datadir == data_directory_get(im, IMAGE_DIRECTORY_ENTRY_EXPORT)
    IN  IF datadir.present
        THEN IF datadir.VirtualAddress # BADRVA
             THEN Unwrapped(read_struct(im, bld, T_ImageExportDirectory,
                                        datadir.VirtualAddress), datadir)
             ELSE NoRef
        ELSE NoRef

relocs(im) ==
    LET datadir == data_directory_get(im, IMAGE_DIRECTORY_ENTRY_BASERELOC)
    IN  IF datadir.present
        THEN IF datadir.VirtualAddress # BADRVA THEN Handle(datadir) ELSE NoRef
        ELSE NoRef

resources(im, bld) ==
    LET datadir == data_directory_get(im, IMAGE_DIRECTORY_ENTRY_RESOURCE)
    IN  IF datadir.present /\ datadir.VirtualAddress # BADRVA
        THEN Unwrapped(read_slice(im, bld, T_u8, datadir.VirtualAddress, datadir.Size),
                       datadir)
        ELSE NoRef

----------------------------------------------------------------------------
(* The export directory (pe64/exports.rs).                                 *)

\* ImageExportDirectory
Off_Name == 12
Off_Base == 16
Off_NumberOfFunctions == 20
Off_NumberOfNames == 24
Off_AddressOfFunctions == 28
Off_AddressOfNames == 32
Off_AddressOfNameOrdinals == 36

U16Mod == 2 ^ 16

\* A u32 at full width, as its two 16-bit halves.
Wide(b, off) == [hi |-> U16At(b, off + 2), lo |-> U16At(b, off)]
WideOf(v) == [hi |-> v \div U16Mod, lo |-> v % U16Mod]
WideLess(a, b) == a.hi < b.hi \/ (a.hi = b.hi /\ a.lo < b.lo)

\* a + b on u32: the overflow panics in a debug build and wraps in a
\* release build.
u32_add(bld, a, b) ==
    LET lo == a.lo + b.lo
        hi == a.hi + b.hi + (lo \div U16Mod)
    IN  IF bld = "debug" /\ hi >= U16Mod
        THEN [ok |-> FALSE, val |-> WideOf(0)]
        ELSE [ok |-> TRUE, val |-> [hi |-> hi % U16Mod, lo |-> lo % U16Mod]]

\* a - b and a + b on u16.
u16_sub(bld, a, b) ==
    IF bld = "debug" /\ a < b
    THEN [ok |-> FALSE, val |-> 0]
    ELSE [ok |-> TRUE, val |-> (a - b + U16Mod) % U16Mod]

u16_add(bld, a, b) ==
    IF bld = "debug" /\ a + b >= U16Mod
    THEN [ok |-> FALSE, val |-> 0]
    ELSE [ok |-> TRUE, val |-> (a + b) % U16Mod]

\* ExportDirectory { view_, datadir_, image_ } as exports() builds it:
\* datadir_ is the offset of the EXPORT entry of the data directory, image_
\* the offset of the record at its VirtualAddress.
ExportDirectory(im) ==
    LET at == optional_header(im) + Off64_DataDirectory
                + IMAGE_DIRECTORY_ENTRY_EXPORT * SizeOf_ImageDataDirectory
    IN  [datadir_ |-> at, image_ |-> U32At(im, at)]

\* enum Export, and the panic of a call.
ExportNone == [kind |-> "None", rva |-> 0, str |-> <<>>]
ExportSymbol(rva) == [kind |-> "Symbol", rva |-> rva, str |-> <<>>]
ExportForward(str) == [kind |-> "Forward", rva |-> 0, str |-> str]
ExportPanic == [kind |-> "Panic", rva |-> 0, str |-> <<>>]

functions(im, bld, exp) ==
    read_slice(im, bld, T_Rva, U32At(im, exp.image_ + Off_AddressOfFunctions),
               U32At(im, exp.image_ + Off_NumberOfFunctions))

names(im, bld, exp) ==
    read_slice(im, bld, T_Rva, U32At(im, exp.image_ + Off_AddressOfNames),
               U32At(im, exp.image_ + Off_NumberOfNames))

name_indices(im, bld, exp) ==
    read_slice(im, bld, T_u16, U32At(im, exp.image_ + Off_AddressOfNameOrdinals),
               U32At(im, exp.image_ + Off_NumberOfNames))

\* slice.len() and slice[i] of a slice the readers returned.
SliceLen(sl, T) == sl.size \div T.size
RvaAt(im, sl, i) == U32At(im, sl.off + T_Rva.size * i)
IndexAt(im, sl, i) == U16At(im, sl.off + T_u16.size * i)

\* is_forwarded(rva): "true", "false", or "panic" on the overflow of
\* VirtualAddress + Size. The && does not evaluate the sum when
\* rva < VirtualAddress.
is_forwarded(im, bld, exp, rva) ==
    LET va  == Wide(im, exp.datadir_)
        sz  == Wide(im, exp.datadir_ + Off_Size)
        r   == WideOf(rva)
        end == u32_add(bld, va, sz)
    IN  IF WideLess(r, va) THEN "false"
        ELSE IF ~end.ok THEN "panic"
        ELSE IF WideLess(r, end.val) THEN "true" ELSE "false"

symbol_from_rva(im, bld, exp, rva) ==
    LET fwd == is_forwarded(im, bld, exp, rva)
    IN  IF fwd = "panic" THEN ExportPanic
        ELSE IF fwd = "true"
             THEN LET str == read_str(im, rva)
                  IN  IF str.kind = "Some" THEN ExportForward(str.val) ELSE ExportPanic
        ELSE ExportSymbol(rva)

\* functions.get(idx) followed by the BADRVA test and symbol_from_rva.
Resolve(im, bld, exp, fs, idx) ==
    IF idx < SliceLen(fs, T_Rva)
    THEN IF RvaAt(im, fs, idx) # BADRVA
         THEN symbol_from_rva(im, bld, exp, RvaAt(im, fs, idx))
         ELSE ExportNone
    ELSE ExportNone

symbol_by_ordinal(im, bld, exp, ord) ==
    LET fs == functions(im, bld, exp)
        ord_idx == u16_sub(bld, ord, U16At(im, exp.image_ + Off_Base))
    IN  IF fs.kind = "Panic" THEN ExportPanic
        ELSE IF fs.kind = "None" THEN ExportNone
        ELSE IF ~ord_idx.ok THEN ExportPanic
        ELSE Resolve(im, bld, exp, fs, ord_idx.val)

\* The loop of symbol_by_name over names.iter().zip(name_indices.iter()),
\* from position i. Both slices come from names() (exports.rs:174-175), so
\* the index paired with a name is the name's own RVA.
RECURSIVE by_name_scan(_, _, _, _, _, _, _)
by_name_scan(im, bld, exp, name, fs, ns, i) ==
    IF i >= SliceLen(ns, T_Rva) THEN ExportNone
    ELSE LET name_rva == RvaAt(im, ns, i)
             name_ord_idx == RvaAt(im, ns, i)
             name_it == read_str(im, name_rva)
         IN  IF name_it.kind # "Some" THEN ExportPanic
             ELSE IF name_it.val = name
                  THEN Resolve(im, bld, exp, fs, name_ord_idx)
             ELSE by_name_scan(im, bld, exp, name, fs, ns, i + 1)

symbol_by_name(im, bld, exp, name) ==
    LET fs == functions(im, bld, exp)
        ns == names(im, bld, exp)
    IN  IF fs.kind = "Panic" THEN ExportPanic
        ELSE IF fs.kind = "None" THEN ExportNone
        ELSE IF ns.kind = "Panic" THEN ExportPanic
        ELSE IF ns.kind = "None" THEN ExportNone
        ELSE by_name_scan(im, bld, exp, name, fs, ns, 0)

\* struct NamedExport { ord, symbol, name }, and the panic of a call.
NamedExport(ord, symbol, name) ==
    [kind |-> "Named", ord |-> ord, symbol |-> symbol, name |-> name]
NamedPanic ==
    [kind |-> "Panic", ord |-> 0, symbol |-> ExportPanic, name |-> <<>>]
\* Option<&str>: None is <<>>, Some(s) is <<s>>.
NameNone == <<>>
NameSome(str) == <<str>>

\* The loop of name_from_ordinal over names.iter().zip(name_indices.iter()).
RECURSIVE ordinal_name_scan(_, _, _, _, _, _, _, _, _)
ordinal_name_scan(im, bld, exp, ord, ord_idx, sym_rva, ns, nis, i) ==
    LET symbol == symbol_from_rva(im, bld, exp, sym_rva)
    IN  IF i >= SliceLen(ns, T_Rva) \/ i >= SliceLen(nis, T_u16)
        THEN IF symbol.kind = "Panic" THEN NamedPanic
             ELSE NamedExport(ord, symbol, NameNone)
        ELSE IF ord_idx = IndexAt(im, nis, i)
             THEN LET str == read_str(im, RvaAt(im, ns, i))
                  IN  IF symbol.kind = "Panic" \/ str.kind # "Some" THEN NamedPanic
                      ELSE NamedExport(ord, symbol, NameSome(str.val))
        ELSE ordinal_name_scan(im, bld, exp, ord, ord_idx, sym_rva, ns, nis, i + 1)

name_from_ordinal(im, bld, exp, ord) ==
    LET fs == functions(im, bld, exp)
        ord_idx == u16_sub(bld, ord, U16At(im, exp.image_ + Off_Base))
        nis == name_indices(im, bld, exp)
        ns == names(im, bld, exp)
        none == NamedExport(ord, ExportNone, NameNone)
    IN  IF fs.kind = "Panic" THEN NamedPanic
        ELSE IF fs.kind = "None" THEN none
        ELSE IF ~ord_idx.ok THEN NamedPanic
        ELSE IF ord_idx.val >= SliceLen(fs, T_Rva) THEN none
        ELSE IF RvaAt(im, fs, ord_idx.val) = BADRVA THEN none
        ELSE LET sym_rva == RvaAt(im, fs, ord_idx.val)
                 symbol == symbol_from_rva(im, bld, exp, sym_rva)
                 unnamed == IF symbol.kind = "Panic" THEN NamedPanic
                            ELSE NamedExport(ord, symbol, NameNone)
             IN  IF nis.kind = "Panic" THEN NamedPanic
                 ELSE IF nis.kind = "None" THEN unnamed
                 ELSE IF ns.kind = "Panic" THEN NamedPanic
                 ELSE IF ns.kind = "None" THEN unnamed
                 ELSE ordinal_name_scan(im, bld, exp, ord, ord_idx.val, sym_rva, ns, nis, 0)

\* ExportIterator::next with self.it = it: None at the end, or the ordinal
\* and the incremented self.it; both additions are on u16.
export_iterator_next(im, bld, exp, it) ==
    LET ord  == u16_add(bld, it, U16At(im, exp.image_ + Off_Base))
        next == u16_add(bld, it, 1)
    IN  IF it >= U32At(im, exp.image_ + Off_NumberOfFunctions)
        THEN [kind |-> "None", ord |-> 0, it |-> it]
        ELSE IF ~ord.ok \/ ~next.ok THEN [kind |-> "Panic", ord |-> 0, it |-> it]
        ELSE [kind |-> "Some", ord |-> ord.val, it |-> next.val]

----------------------------------------------------------------------------
(* The import directory of the 32-bit family (pe32/imports.rs).            *)

\* Va of the 32-bit family.
T_Va32 == [name |-> "Va", size |-> 4, align |-> 4]

\* ImageImportDescriptor
Off_OriginalFirstThunk == 0
Off_TimeDateStamp == 4
Off_ForwarderChain == 8
Off_DescriptorName == 12
Off_FirstThunk == 16

\* IMAGE_ORDINAL_FLAG32 = 0x80000000, in the high half of a thunk.
IMAGE_ORDINAL_FLAG32_hi == 32768

WideZero(w) == w.hi = 0 /\ w.lo = 0

\* is_sentinel with only OriginalFirstThunk tested.
SentinelByFirstThunk(im, at) ==
    WideZero(Wide(im, at + Off_OriginalFirstThunk))

is_sentinel(im, at) ==
    /\ WideZero(Wide(im, at + Off_OriginalFirstThunk))
    /\ WideZero(Wide(im, at + Off_TimeDateStamp))
    /\ WideZero(Wide(im, at + Off_ForwarderChain))
    /\ WideZero(Wide(im, at + Off_DescriptorName))
    /\ WideZero(Wide(im, at + Off_FirstThunk))

\* What next() of an iterator gives: None, a panic, or Some item with the
\* iterator's new position.
IterNone(it) == [kind |-> "None", item |-> <<>>, it |-> it]
IterPanic(it) == [kind |-> "Panic", item |-> <<>>, it |-> it]
IterSome(item, it) == [kind |-> "Some", item |-> item, it |-> it]

\* ImportDescriptorIterator::next; the item is the descriptor's offset.
import_descriptor_next(im, bld, it) ==
    LET image_ == read_struct(im, bld, T_ImageImportDescriptor, it)
    IN  IF image_.kind # "Some" THEN IterPanic(it)
        ELSE IF is_sentinel(im, image_.off) THEN IterNone(it)
        ELSE IterSome(image_.off, it + T_ImageImportDescriptor.size)

\* enum ImportedSymbol
ByName(hint, name) == [kind |-> "ByName", hint |-> hint, name |-> name, ord |-> 0]
ByOrdinal(ord) == [kind |-> "ByOrdinal", hint |-> 0, name |-> <<>>, ord |-> ord]

\* The ordinal of a thunk masked with 0xFF.
ThunkOrdinalLowByte(va) == va.lo % 256

\* (*va & 0xFFFF) as u16
thunk_ordinal(va) == va.lo

\* *va & IMAGE_ORDINAL_FLAG == 0
thunk_is_name(va) == va.hi < IMAGE_ORDINAL_FLAG32_hi

\* ImportNameIterator::next
import_name_next(im, bld, it) ==
    LET va == read_struct(im, bld, T_Va32, it)
        thunk == Wide(im, it)
        rva == thunk.hi * U16Mod + thunk.lo
        hint == read_struct(im, bld, T_u16, rva)
        name == read_str(im, rva + 2)
    IN  IF va.kind # "Some" THEN IterPanic(it)
        ELSE IF WideZero(thunk) THEN IterNone(it)
        ELSE IF thunk_is_name(thunk)
             THEN IF hint.kind # "Some" \/ name.kind # "Some"
                  THEN IterPanic(it + T_Va32.size)
                  ELSE IterSome(ByName(U16At(im, hint.off), name.val), it + T_Va32.size)
        ELSE IterSome(ByOrdinal(thunk_ordinal(thunk)), it + T_Va32.size)

\* ImportTableIterator::next; the item is the thunk.
import_table_next(im, bld, it) ==
    LET va == read_struct(im, bld, T_Va32, it)
    IN  IF va.kind # "Some" THEN IterPanic(it)
        ELSE IF WideZero(Wide(im, it)) THEN IterNone(it)
        ELSE IterSome(Wide(im, it), it + T_Va32.size)

----------------------------------------------------------------------------
(* The base relocations (pe64/relocs.rs).                                  *)

T_ImageBaseRelocBlock == [name |-> "ImageBaseRelocBlock", size |-> 2, align |-> 1]

\* ImageBaseRelocation
Off_SizeOfBlock == 4

\* RelocsDirectory { view_, datadir_ }: the offset of the BASERELOC entry of
\* the data directory.
RelocsDirectory(im) ==
    [datadir_ |-> optional_header(im) + Off64_DataDirectory
                    + IMAGE_DIRECTORY_ENTRY_BASERELOC * SizeOf_ImageDataDirectory]

\* rel.SizeOfBlock as usize > mem::size_of::<ImageBaseRelocation>()
block_size_sane(size) == size > T_ImageBaseRelocation.size

\* BaseRelocations { view_, reloc_, blocks_ }: the offset of the header and
\* the slice of 16-bit entries.
BaseRelocations(reloc_, blocks_) ==
    [reloc_ |-> reloc_, blocks_ |-> blocks_.off,
     len |-> blocks_.size \div T_ImageBaseRelocBlock.size]

\* RelocsIterator::next on the directory entry at datadir_.
relocs_iterator_next(im, bld, datadir_, it) ==
    LET end == u32_add(bld, Wide(im, datadir_), Wide(im, datadir_ + Off_Size))
        rel == read_struct(im, bld, T_ImageBaseRelocation, it)
        SizeOfBlock == U32At(im, rel.off + Off_SizeOfBlock)
        block_len == (SizeOfBlock - T_ImageBaseRelocation.size)
                        \div T_ImageBaseRelocBlock.size
        blocks == read_slice(im, bld, T_ImageBaseRelocBlock,
                             it + T_ImageBaseRelocation.size, block_len)
    IN  IF ~end.ok THEN IterPanic(it)
        ELSE IF ~WideLess(WideOf(it), end.val) THEN IterNone(it)
        ELSE IF rel.kind # "Some" THEN IterPanic(it)
        ELSE IF ~block_size_sane(SizeOfBlock) THEN IterPanic(it)
        ELSE IF blocks.kind # "Some" THEN IterPanic(it)
        ELSE IterSome(BaseRelocations(rel.off, blocks), it + SizeOfBlock)

\* BaseRelocations::rva_of and type_of of the entry at offset block.
rva_of(im, bld, rels, block) ==
    u32_add(bld, Wide(im, rels.reloc_), WideOf(U16At(im, block) % 4096))

type_of(im, block) == (U16At(im, block) \div 4096) % 256

----------------------------------------------------------------------------
(* The resource tree (resources.rs) over the slice pe64/resources.rs hands  *)
(* to Resources::new: the Size bytes at the RESOURCE directory's            *)
(* VirtualAddress, with vbase = VirtualAddress. Offsets are offsets into    *)
(* the slice.                                                               *)

SizeOf_ImageResourceDirectory == 16
SizeOf_ImageResourceDirectoryEntry == 8
SizeOf_ImageResourceDataEntry == 16

\* ImageResourceDirectory, ImageResourceDirectoryEntry, ImageResourceDataEntry
Off_NumberOfNamedEntries == 12
Off_NumberOfIdEntries == 14
Off_EntryOffset == 4
Off_DataSize == 4

\* 0x80000000, in the high half of Name and Offset.
ENTRY_FLAG_hi == 32768

\* Resources::new(resrc, datadir.VirtualAddress): data is where the slice
\* starts in the image.
Resources_new(im) ==
    LET datadir_ == optional_header(im) + Off64_DataDirectory
                      + IMAGE_DIRECTORY_ENTRY_RESOURCE * SizeOf_ImageDataDirectory
    IN  [data |-> U32At(im, datadir_), len |-> U32At(im, datadir_ + Off_Size),
         vbase |-> U32At(im, datadir_)]

\* a + b on usize.
usize_add(bld, a, b) ==
    IF bld = "debug" /\ a + b >= UsizeMod
    THEN [ok |-> FALSE, val |-> 0]
    ELSE [ok |-> TRUE, val |-> (a + b) % UsizeMod]

\* Resources::read_slice: &self.data[off .. off + len], a panic when the
\* range is reversed or ends past the slice.
res_read_slice(res, bld, off, len) ==
    LET end == usize_add(bld, off, len)
    IN  IF ~end.ok THEN Panic({})
        ELSE IF off > end.val \/ end.val > res.len THEN Panic({})
        ELSE Ref(off, len, {}, <<>>)

\* Resources::read::<T>
res_read(res, bld, size, off) == res_read_slice(res, bld, off, size)

ResU16(im, res, off) == U16At(im, res.data + off)
ResWide(im, res, off) == Wide(im, res.data + off)

\* enum ResourceName
NameId(id) == [kind |-> "Id", id |-> id, name |-> <<>>]
NameStr(words) == [kind |-> "Name", id |-> 0, name |-> words]
NamePanic == [kind |-> "Panic", id |-> 0, name |-> <<>>]

\* Resources::read_str: the outcomes of the call. The u16 length and the
\* words are read through a *const u16 made from a byte pointer; at an odd
\* address that is a misaligned read, which the build may carry out or stop
\* with a panic.
res_read_str(im, res, bld, off) ==
    LET len == res_read(res, bld, T_u16.size, off)
        words == ResU16(im, res, off)
        name == res_read_slice(res, bld, off + 2, words * 2)
        value == NameStr([i \in 1..words |-> ResU16(im, res, off + 2 * i)])
    IN  IF len.kind # "Some" THEN {NamePanic}
        ELSE IF name.kind # "Some" THEN {NamePanic}
        ELSE IF (res.data + off) % T_u16.size = 0 THEN {value}
        ELSE {value, NamePanic}

\* ResourceDirectoryEntry { resrc_, image_ }: the entry's two words, and
\* where it lies in the slice (the root entry is a constant outside it).
ROOT_ENTRY == [Name |-> WideOf(0), Offset |-> [hi |-> ENTRY_FLAG_hi, lo |-> 0],
               inline |-> FALSE, at |-> 0]
EntryAt(im, res, at) ==
    [Name |-> ResWide(im, res, at), Offset |-> ResWide(im, res, at + Off_EntryOffset),
     inline |-> TRUE, at |-> at]

\* v & !0x80000000 as usize
low31(w) == (w.hi % ENTRY_FLAG_hi) * U16Mod + w.lo

\* ResourceDirectoryEntry::name: the outcomes of the call.
entry_name(im, res, bld, e) ==
    IF e.Name.hi >= ENTRY_FLAG_hi
    THEN res_read_str(im, res, bld, low31(e.Name))
    ELSE {NameId(e.Name.lo)}

\* is_dir with the flag looked for in bit 30.
IsDirByBit30(e) == (e.Offset.hi \div 16384) % 2 = 1

is_dir(e) == e.Offset.hi >= ENTRY_FLAG_hi

\* The number of entries of the directory at offset dir.
entries_len(im, res, dir) ==
    ResU16(im, res, dir + Off_NumberOfNamedEntries)
      + ResU16(im, res, dir + Off_NumberOfIdEntries)

\* as_dir with only the directory's header tested.
AsDirHeaderOnly(im, res, bld, e) ==
    IF is_dir(e)
    THEN res_read(res, bld, SizeOf_ImageResourceDirectory, low31(e.Offset))
    ELSE NoRef

\* ResourceDirectoryEntry::as_dir: Some directory (header and entries), a
\* panic, or None.
as_dir(im, res, bld, e) ==
    IF is_dir(e)
    THEN LET offset == low31(e.Offset)
             header == res_read(res, bld, SizeOf_ImageResourceDirectory, offset)
             bytes == SizeOf_ImageResourceDirectory
                        + entries_len(im, res, offset) * SizeOf_ImageResourceDirectoryEntry
         IN  IF header.kind # "Some" THEN Panic({})
             ELSE res_read_slice(res, bld, offset, bytes)
    ELSE NoRef

\* ResourceDirectoryEntry::as_data
as_data(im, res, bld, e) ==
    IF ~is_dir(e)
    THEN res_read(res, bld, SizeOf_ImageResourceDataEntry, low31(e.Offset))
    ELSE NoRef

\* ResourceDirectoryEntry::entry
entry_of(im, res, bld, e) ==
    IF is_dir(e)
    THEN [kind |-> "Directory", ref |-> as_dir(im, res, bld, e)]
    ELSE [kind |-> "DataEntry", ref |-> as_data(im, res, bld, e)]

\* ResourceDirectoryIterator::next on the directory at dir; the item is the
\* offset of the entry.
resource_directory_next(im, res, dir, it) ==
    IF it < entries_len(im, res, dir)
    THEN IterSome(dir + SizeOf_ImageResourceDirectory
                    + it * SizeOf_ImageResourceDirectoryEntry, it + 1)
    ELSE IterNone(it)

\* ResourceDataEntry::data on the data entry at offset at.
resource_data(im, res, bld, at) ==
    LET offset == usize_sub(bld, U32At(im, res.data + at), res.vbase)
    IN  IF ~offset.ok THEN Panic({})
        ELSE res_read_slice(res, bld, offset.val,
                            U32At(im, res.data + at + Off_DataSize))

----------------------------------------------------------------------------
(* Address conversions of PeView (pe64). Rva is u32, Va is u64 and         *)
(* FileOffset is usize, 64 bits wide on the targets of a PE32+ view. A      *)
(* value wider than the checker's integers is the sequence of its 16-bit   *)
(* limbs, least significant first: two limbs for a u32, four for a u64.    *)

Off64_ImageBase == 24

\* The integer at off as n limbs.
Limbs(b, off, n) == [i \in 1..n |-> U16At(b, off + 2 * (i - 1))]

\* The carry out of the i low limbs of a + b and the borrow out of the i
\* low limbs of a - b.
RECURSIVE LCarry(_, _, _)
LCarry(a, b, i) ==
    IF i = 0 THEN 0 ELSE (a[i] + b[i] + LCarry(a, b, i - 1)) \div U16Mod

RECURSIVE LBorrow(_, _, _)
LBorrow(a, b, i) ==
    IF i = 0 THEN 0
    ELSE IF a[i] - b[i] - LBorrow(a, b, i - 1) < 0 THEN 1 ELSE 0

\* `a < b` on unsigned integers of equal width.
LLess(a, b) == LBorrow(a, b, Len(a)) = 1

\* `a + b` and `a - b` on unsigned integers of equal width: an overflow
\* panics in a debug build and wraps in a release build.
checked_add(bld, a, b) ==
    IF bld = "debug" /\ LCarry(a, b, Len(a)) = 1
    THEN [ok |-> FALSE, val |-> [i \in 1..Len(a) |-> 0]]
    ELSE [ok |-> TRUE,
          val |-> [i \in 1..Len(a) |-> (a[i] + b[i] + LCarry(a, b, i - 1)) % U16Mod]]

checked_sub(bld, a, b) ==
    IF bld = "debug" /\ LBorrow(a, b, Len(a)) = 1
    THEN [ok |-> FALSE, val |-> [i \in 1..Len(a) |-> 0]]
    ELSE [ok |-> TRUE,
          val |-> [i \in 1..Len(a) |->
                     (a[i] - b[i] - LBorrow(a, b, i - 1) + U16Mod) % U16Mod]]

\* `x as Va`, `x as FileOffset` of a u32 and `x as Rva` of a u64.
Widen(x) == x \o <<0, 0>>
Truncate(x) == SubSeq(x, 1, 2)

BADRVA32 == <<0, 0>>
BADVA == <<0, 0, 0, 0>>

\* PeView::module: vbase is the ImageBase of the optional header.
vbase_of(im) == Limbs(im, optional_header(im) + Off64_ImageBase, 4)

\* section_headers(): NumberOfSections headers right behind the optional
\* header as sized by SizeOfOptionalHeader.
section_headers(im) ==
    LET nt == U32At(im, Off_e_lfanew)
        fh == nt + Off_FileHeader
    IN  [begin |-> optional_header(im) + U16At(im, fh + Off_SizeOfOptionalHeader),
         len   |-> U16At(im, fh + Off_NumberOfSections)]

\* The fields of header k the conversions read.
SectionFields(im, k) ==
    LET at == section_headers(im).begin + k * SizeOf_ImageSectionHeader
    IN  [VirtualAddress   |-> Limbs(im, at + Off_VirtualAddress, 2),
         SizeOfRawData    |-> Limbs(im, at + Off_SizeOfRawData, 2),
         PointerToRawData |-> Limbs(im, at + Off_PointerToRawData, 2)]

ConvNone == [kind |-> "None", val |-> <<>>]
ConvPanic == [kind |-> "Panic", val |-> <<>>]
ConvSome(v) == [kind |-> "Some", val |-> v]

\* `rva >= it.VirtualAddress && rva < (it.VirtualAddress + it.SizeOfRawData)`
\* the sum is a u32 and is only computed when the first test passes.
covers_rva(bld, it, rva) ==
    IF LLess(rva, it.VirtualAddress) THEN [ok |-> TRUE, in |-> FALSE]
    ELSE LET end == checked_add(bld, it.VirtualAddress, it.SizeOfRawData)
         IN  [ok |-> end.ok, in |-> end.ok /\ LLess(rva, end.val)]

\* rva_to_file_offset from header k on.
RECURSIVE rva_to_file_offset_from(_, _, _, _)
rva_to_file_offset_from(im, bld, rva, k) ==
    IF k >= section_headers(im).len THEN ConvNone
    ELSE LET it == SectionFields(im, k)
             c == covers_rva(bld, it, rva)
         IN  IF ~c.ok THEN ConvPanic
             ELSE IF c.in
             THEN LET d == checked_sub(bld, rva, it.VirtualAddress)
                      s == checked_add(bld, d.val, it.PointerToRawData)
                  IN  IF d.ok /\ s.ok THEN ConvSome(Widen(s.val)) ELSE ConvPanic
             ELSE rva_to_file_offset_from(im, bld, rva, k + 1)

rva_to_file_offset(im, bld, rva) == rva_to_file_offset_from(im, bld, rva, 0)

\* file_offset_to_rva from header k on: the range test is on usize, where
\* the sum of two u32 cannot overflow; the result is computed on u32 from
\* the truncated offset.
RECURSIVE file_offset_to_rva_from(_, _, _, _)
file_offset_to_rva_from(im, bld, file_offset, k) ==
    IF k >= section_headers(im).len THEN ConvSome(BADRVA32)
    ELSE LET it == SectionFields(im, k)
             begin == Widen(it.PointerToRawData)
             end == checked_add(bld, begin, Widen(it.SizeOfRawData))
         IN  IF ~LLess(file_offset, begin) /\ LLess(file_offset, end.val)
             THEN LET d == checked_sub(bld, Truncate(file_offset), it.PointerToRawData)
                      s == checked_add(bld, d.val, it.VirtualAddress)
                  IN  IF d.ok /\ s.ok THEN ConvSome(s.val) ELSE ConvPanic
             ELSE file_offset_to_rva_from(im, bld, file_offset, k + 1)

file_offset_to_rva(im, bld, file_offset) ==
    file_offset_to_rva_from(im, bld, file_offset, 0)

\* `if rva != BADRVA { self.vbase + rva as Va } else { BADVA }`
rva_to_va(im, bld, rva) ==
    IF rva # BADRVA32
    THEN LET s == checked_add(bld, vbase_of(im), Widen(rva))
         IN  IF s.ok THEN ConvSome(s.val) ELSE ConvPanic
    ELSE ConvSome(BADVA)

\* `if va != BADVA { (va - self.vbase) as Rva } else { BADRVA }`
va_to_rva(im, bld, va) ==
    IF va # BADVA
    THEN LET d == checked_sub(bld, va, vbase_of(im))
         IN  IF d.ok THEN ConvSome(Truncate(d.val)) ELSE ConvPanic
    ELSE ConvSome(BADRVA32)

----------------------------------------------------------------------------
(* SpecView: one call of one of the three readers on an arbitrary buffer.   *)

NoCall == [fn |-> "none", T |-> T_u8, rva |-> 0, len |-> 0]

RECURSIVE SeqsUpTo(_, _)
SeqsUpTo(S, n) ==
    IF n = 0 THEN {<<>>}
    ELSE LET shorter == SeqsUpTo(S, n - 1)
         IN  shorter \cup {Append(s, x) : s \in shorter, x \in S}

InitView ==
    /\ image \in SeqsUpTo(ViewBytes, MaxLen)
    /\ build \in Builds
    /\ call = NoCall
    /\ ret = NoRef
    /\ file = [present |-> FALSE, bytes |-> <<>>]
    /\ fpos = 0 /\ buf = <<>> /\ pc = "idle" /\ loc = Loc0 /\ result = "none"
    /\ iter = NoIter

ReadStruct ==
    \E T \in Types, rva \in 0..MaxRva :
        /\ call = NoCall
        /\ call' = [fn |-> "read_struct", T |-> T, rva |-> rva, len |-> 1]
        /\ ret' = read_struct(image, build, T, rva)
        /\ UNCHANGED <<image, build, iter>>
        /\ UNCHANGED openVars

ReadSlice ==
    \E T \in Types, rva \in 0..MaxRva, len \in 0..MaxCount :
        /\ call = NoCall
        /\ call' = [fn |-> "read_slice", T |-> T, rva |-> rva, len |-> len]
        /\ ret' = read_slice(image, build, T, rva, len)
        /\ UNCHANGED <<image, build, iter>>
        /\ UNCHANGED openVars

ReadStr ==
    \E rva \in 0..MaxRva :
        /\ call = NoCall
        /\ call' = [fn |-> "read_str", T |-> T_u8, rva |-> rva, len |-> 0]
        /\ ret' = read_str(image, rva)
        /\ UNCHANGED <<image, build, iter>>
        /\ UNCHANGED openVars

NextView == ReadStruct \/ ReadSlice \/ ReadStr

SpecView == InitView /\ [][NextView]_vars

----------------------------------------------------------------------------
(* The files SpecOpen loads. A file is described by the values of the      *)
(* fields the loader looks at and laid out as PE32: the NT headers at      *)
(* e_lfanew, the section table right after the optional header as sized by *)
(* SizeOfOptionalHeader, the DOS header written last. Every other byte of  *)
(* the file is a non-zero filler, so that copied bytes can be told from    *)
(* zero-initialised ones.                                                  *)

Fill(off) == 1 + (off % 100)

\* The n low bytes of v, least significant first.
LE(v, n) == [i \in 1..n |-> (v \div (256 ^ (i - 1))) % 256]

\* b with seg written at off, clipped to the length of b.
Overlay(b, off, seg) ==
    [i \in 1..Len(b) |->
        IF i > off /\ i <= off + Len(seg) THEN seg[i - off] ELSE b[i]]

DosBytes(f) ==
    Overlay(Overlay(Zeros(SizeOf_ImageDosHeader),
                    Off_e_magic, LE(f.e_magic, 2)),
            Off_e_lfanew, LE(f.e_lfanew, 4))

NtBytes(f) ==
    LET fh  == Off_FileHeader
        opt == Off_OptionalHeader
        b0 == Zeros(SizeOf_ImageNtHeaders32)
        b1 == Overlay(b0, Off_Signature, LE(f.Signature, 4))
        b2 == Overlay(b1, fh + Off_NumberOfSections, LE(f.NumberOfSections, 2))
        b3 == Overlay(b2, fh + Off_SizeOfOptionalHeader, LE(f.SizeOfOptionalHeader, 2))
        b4 == Overlay(b3, opt + Off_Magic, LE(f.Magic, 2))
        b5 == Overlay(b4, opt + Off_SizeOfImage, LE(f.SizeOfImage, 4))
        b6 == Overlay(b5, opt + Off_SizeOfHeaders, LE(f.SizeOfHeaders, 4))
    IN  Overlay(b6, opt + Off_NumberOfRvaAndSizes, LE(f.NumberOfRvaAndSizes, 4))

SectionBytes(sec) ==
    Zeros(Off_VirtualSize)
        \o LE(sec.VirtualSize, 4) \o LE(sec.VirtualAddress, 4)
        \o LE(sec.SizeOfRawData, 4) \o LE(sec.PointerToRawData, 4)
        \o Zeros(SizeOf_ImageSectionHeader - Off_PointerToRawData - 4)

RECURSIVE SectionTable(_)
SectionTable(secs) ==
    IF secs = <<>> THEN <<>>
    ELSE SectionBytes(Head(secs)) \o SectionTable(Tail(secs))

MkFile(f) ==
    LET raw == [i \in 1..f.flen |-> Fill(i - 1)]
        nt  == Overlay(raw, f.e_lfanew, NtBytes(f))
        tab == Overlay(nt, f.e_lfanew + Off_OptionalHeader + f.SizeOfOptionalHeader,
                       SectionTable(f.secs))
    IN  [present |-> TRUE, bytes |-> Overlay(tab, 0, DosBytes(f))]

Sec(va, vsize, praw, rawsize) ==
    [VirtualAddress |-> va, VirtualSize |-> vsize,
     PointerToRawData |-> praw, SizeOfRawData |-> rawsize]

\* Files that differ in the DOS header and in their length; the rest is a
\* well-formed image of one section placed after the headers.
DosFiles(lfanews) ==
    { LET hdr == e + SizeOf_ImageNtHeaders32 + SizeOf_ImageSectionHeader
      IN  MkFile([e_magic |-> m, e_lfanew |-> e,
                  Signature |-> IMAGE_NT_HEADERS_SIGNATURE,
                  Magic |-> IMAGE_NT_OPTIONAL_HDR32_MAGIC,
                  NumberOfSections |-> 1,
                  SizeOfOptionalHeader |-> SizeOf_ImageOptionalHeader32,
                  SizeOfImage |-> hdr + 8, SizeOfHeaders |-> hdr,
                  NumberOfRvaAndSizes |-> IMAGE_NUMBEROF_DIRECTORY_ENTRIES,
                  secs |-> <<Sec(hdr, 8, hdr, 8)>>,
                  flen |-> IF cut = 0 THEN hdr + 8 ELSE cut - 1])
      : m \in {IMAGE_DOS_HEADER_MAGIC, 19802, 0},      \* 19802 = 0x4D5A
        e \in lfanews,
        cut \in {0, 1, 64, 65, 312} }

\* A file with a good DOS header, e_lfanew = 64 and two well-formed
\* sections in its table, 440 bytes long, with the given NT header fields.
NtFile(sig, mag, nsec, sopt, simg, shdr, ndir) ==
    MkFile([e_magic |-> IMAGE_DOS_HEADER_MAGIC, e_lfanew |-> 64,
            Signature |-> sig, Magic |-> mag,
            NumberOfSections |-> nsec,
            SizeOfOptionalHeader |-> sopt,
            SizeOfImage |-> simg, SizeOfHeaders |-> shdr,
            NumberOfRvaAndSizes |-> ndir,
            secs |-> <<Sec(400, 8, 420, 8), Sec(408, 8, 428, 8)>>,
            flen |-> 440])

\* Files that differ in the two magic values of the NT headers, with sane
\* and insane header sizes and section counts.
MagicFiles(sigs) ==
    { NtFile(sig, mag, nsec, SizeOf_ImageOptionalHeader32, 416, shdr,
             IMAGE_NUMBEROF_DIRECTORY_ENTRIES)
      : sig \in sigs,
        mag \in {IMAGE_NT_OPTIONAL_HDR32_MAGIC, IMAGE_NT_OPTIONAL_HDR64_MAGIC},
        nsec \in {2, 200},
        shdr \in {392, 4097} }

\* Files with good magic values that differ in the sizes and counts of the
\* NT headers.
SanityFiles(nsecs) ==
    { NtFile(IMAGE_NT_HEADERS_SIGNATURE, IMAGE_NT_OPTIONAL_HDR32_MAGIC,
             nsec, sopt, simg, shdr, ndir)
      : nsec \in nsecs,
        sopt \in {223, 224, 232},
        simg \in {391, 416, 4096},
        shdr \in {351, 392, 4096, 4097},
        ndir \in {16, 17} }

\* The sections a file of SecFiles is made of. The file is 440 bytes long:
\* raw data at 436 runs into the end of the file.
SecChoices ==
    { Sec(va, vsize, raw[1], raw[2])
      : va \in {399, 400, 408}, vsize \in {0, 8},
        raw \in {<<0, 0>>, <<0, 8>>, <<424, 0>>, <<424, 8>>, <<424, 12>>, <<436, 8>>} }

\* Files with good headers (SizeOfHeaders = 400, SizeOfImage = 416, 440
\* bytes long) that differ in their one or two sections.
SecFiles(choices) ==
    { MkFile([e_magic |-> IMAGE_DOS_HEADER_MAGIC, e_lfanew |-> 64,
              Signature |-> IMAGE_NT_HEADERS_SIGNATURE,
              Magic |-> IMAGE_NT_OPTIONAL_HDR32_MAGIC,
              NumberOfSections |-> Len(secs),
              SizeOfOptionalHeader |-> SizeOf_ImageOptionalHeader32,
              SizeOfImage |-> 416, SizeOfHeaders |-> 400,
              NumberOfRvaAndSizes |-> IMAGE_NUMBEROF_DIRECTORY_ENTRIES,
              secs |-> secs, flen |-> 440])
      : secs \in {<<a>> : a \in choices}
                 \cup {<<a, b>> : a \in choices, b \in choices} }

\* Files whose headers fill SizeOfHeaders = 0x1000 bytes, with no section or
\* one section of 8 bytes right after them.
PageFiles(nsecs) ==
    { MkFile([e_magic |-> IMAGE_DOS_HEADER_MAGIC, e_lfanew |-> 64,
              Signature |-> IMAGE_NT_HEADERS_SIGNATURE,
              Magic |-> IMAGE_NT_OPTIONAL_HDR32_MAGIC,
              NumberOfSections |-> nsec,
              SizeOfOptionalHeader |-> SizeOf_ImageOptionalHeader32,
              SizeOfImage |-> 4104, SizeOfHeaders |-> 4096,
              NumberOfRvaAndSizes |-> IMAGE_NUMBEROF_DIRECTORY_ENTRIES,
              secs |-> <<Sec(4096, 8, 4096, 8)>>, flen |-> 4104])
      : nsec \in nsecs }

InitOpen ==
    /\ file \in {[present |-> FALSE, bytes |-> <<>>]}
                \cup DosFiles({0, 1, 4, 64, 512, 513})
                \cup MagicFiles({IMAGE_NT_HEADERS_SIGNATURE, 17745})
                \cup SanityFiles({0, 1, 2, 100, 101, 200})
                \cup SecFiles(SecChoices)
                \cup PageFiles({0, 1})
    /\ fpos = 0 /\ buf = <<>> /\ pc = "open" /\ loc = Loc0 /\ result = "none"
    /\ image = <<>> /\ build = "release" /\ call = NoCall /\ ret = NoRef
    /\ iter = NoIter

SpecOpen == InitOpen /\ [][NextOpen]_vars


----------------------------------------------------------------------------
(* SpecDirs: one call of a decoder entry point on a mapped PE32+ image of  *)
(* 376 bytes: the DOS header, the NT headers at e_lfanew = 64 and 48 bytes *)
(* after them.                                                             *)

\* The image with NumberOfRvaAndSizes = ndirs and the given directory
\* entries, dirs[k] = <<k, VirtualAddress, Size>>.
MkImage(len, ndirs, dirs) ==
    LET e_lfanew == SizeOf_ImageDosHeader
        opt == e_lfanew + Off_OptionalHeader
        dos == [e_magic |-> IMAGE_DOS_HEADER_MAGIC, e_lfanew |-> e_lfanew]
        b0 == Overlay([i \in 1..len |-> Fill(i - 1)], 0,
                      DosBytes(dos) \o Zeros(SizeOf_ImageNtHeaders64))
        b1 == Overlay(b0, e_lfanew + Off_Signature, LE(IMAGE_NT_HEADERS_SIGNATURE, 4))
        b2 == Overlay(b1, e_lfanew + Off_FileHeader + Off_SizeOfOptionalHeader,
                      LE(SizeOf_ImageOptionalHeader64, 2))
        b3 == Overlay(b2, opt + Off_Magic, LE(IMAGE_NT_OPTIONAL_HDR64_MAGIC, 2))
        b4 == Overlay(b3, opt + Off_SizeOfImage, LE(len, 4))
        b5 == Overlay(b4, opt + Off_SizeOfHeaders, LE(e_lfanew + SizeOf_ImageNtHeaders64, 4))
        b6 == Overlay(b5, opt + Off64_NumberOfRvaAndSizes, LE(ndirs, 4))
        entry(k) == opt + Off64_DataDirectory + k * SizeOf_ImageDataDirectory
        b7 == Overlay(b6, entry(dirs[1][1]), LE(dirs[1][2], 4) \o LE(dirs[1][3], 4))
        b8 == Overlay(b7, entry(dirs[2][1]), LE(dirs[2][2], 4) \o LE(dirs[2][3], 4))
        b9 == Overlay(b8, entry(dirs[3][1]), LE(dirs[3][2], 4) \o LE(dirs[3][3], 4))
    IN  Overlay(b9, entry(dirs[4][1]), LE(dirs[4][2], 4) \o LE(dirs[4][3], 4))

DirImages(len) ==
    { MkImage(len, ndirs,
              << <<IMAGE_DIRECTORY_ENTRY_EXPORT, exp, size>>,
                 <<IMAGE_DIRECTORY_ENTRY_IMPORT, imp, size>>,
                 <<IMAGE_DIRECTORY_ENTRY_RESOURCE, res, size>>,
                 <<IMAGE_DIRECTORY_ENTRY_BASERELOC, rel, size>> >>)
      : ndirs \in {0, 1, 2, 3, 5, 6, 16},
        exp \in {0, 330, 340, 400}, res \in {0, 330, 340, 400},
        imp \in {0, 330}, rel \in {0, 400},
        size \in {8, 100, 400} }

InitDirs ==
    /\ image \in DirImages(376)
    /\ build \in Builds
    /\ call = NoCall
    /\ ret = NoRef
    /\ file = [present |-> FALSE, bytes |-> <<>>]
    /\ fpos = 0 /\ buf = <<>> /\ pc = "idle" /\ loc = Loc0 /\ result = "none"
    /\ iter = NoIter

EntryCall(fn) == [fn |-> fn, T |-> T_u8, rva |-> 0, len |-> 0]

Imports ==
    /\ call = NoCall
    /\ call' = EntryCall("imports")
    /\ ret' = imports(image)
    /\ UNCHANGED <<image, build, iter>>
    /\ UNCHANGED openVars

Exports ==
    /\ call = NoCall
    /\ call' = EntryCall("exports")
    /\ ret' = exports(image, build)
    /\ UNCHANGED <<image, build, iter>>
    /\ UNCHANGED openVars

Relocs ==
    /\ call = NoCall
    /\ call' = EntryCall("relocs")
    /\ ret' = relocs(image)
    /\ UNCHANGED <<image, build, iter>>
    /\ UNCHANGED openVars

Resources ==
    /\ call = NoCall
    /\ call' = EntryCall("resources")
    /\ ret' = resources(image, build)
    /\ UNCHANGED <<image, build, iter>>
    /\ UNCHANGED openVars

NextDirs == Imports \/ Exports \/ Relocs \/ Resources

SpecDirs == InitDirs /\ [][NextDirs]_vars

----------------------------------------------------------------------------
(* SpecExports: one lookup in the export directory of a mapped PE32+ image *)
(* of 416 bytes. The record is at 328, the function table at 368, the name *)
(* table at 380, the name ordinals at 388; the strings "a" and "b" are at  *)
(* 392 and 394 and also at 2 and 4, the string "x.y" at 396 and the        *)
(* library's name at 400. The directory's extent is [328, 328 + Size).     *)

ExportImage(base, nfun, afun, funcs, nnames, nameRvas, indices, dirsize) ==
    LET b0 == MkImage(416, IMAGE_NUMBEROF_DIRECTORY_ENTRIES,
                      << <<IMAGE_DIRECTORY_ENTRY_EXPORT, 328, 0>>,
                         <<IMAGE_DIRECTORY_ENTRY_IMPORT, 0, 0>>,
                         <<IMAGE_DIRECTORY_ENTRY_RESOURCE, 0, 0>>,
                         <<IMAGE_DIRECTORY_ENTRY_BASERELOC, 0, 0>> >>)
        b1 == Overlay(b0, SizeOf_ImageDosHeader + Off_OptionalHeader
                            + Off64_DataDirectory + Off_Size, dirsize)
        b2 == Overlay(b1, 328,
                      Zeros(Off_Name) \o LE(400, 4) \o LE(base, 4) \o LE(nfun, 4)
                        \o LE(nnames, 4) \o LE(afun, 4) \o LE(380, 4) \o LE(388, 4))
        b3 == Overlay(b2, 368, LE(funcs[1], 4) \o LE(funcs[2], 4) \o LE(funcs[3], 4))
        b4 == Overlay(b3, 380, LE(nameRvas[1], 4) \o LE(nameRvas[2], 4))
        b5 == Overlay(b4, 388, LE(indices[1], 2) \o LE(indices[2], 2))
        b6 == Overlay(b5, 392, <<97, 0, 98, 0, 120, 46, 121, 0, 100, 0>>)
    IN  Overlay(b6, 2, <<97, 0, 98, 0>>)

ExportImages(bases, nfuns) ==
    { ExportImage(base, nfun, afun, funcs, nnames, nameRvas, indices, dirsize)
      : base \in bases, nfun \in nfuns, afun \in {368, 0},
        funcs \in {<<404, 396, 0>>, <<0, 408, 396>>},
        nnames \in {0, 2},
        nameRvas \in {<<392, 394>>, <<2, 4>>, <<394, 0>>},
        indices \in {<<0, 1>>, <<1, 0>>, <<2, 5>>},
        dirsize \in {LE(74, 4), LE(0, 4), <<255, 255, 255, 255>>} }

InitExports ==
    /\ image \in ExportImages({0, 1, 65537}, {0, 2, 3})
    /\ build \in Builds
    /\ call = NoCall
    /\ ret = NoRef
    /\ file = [present |-> FALSE, bytes |-> <<>>]
    /\ fpos = 0 /\ buf = <<>> /\ pc = "idle" /\ loc = Loc0 /\ result = "none"
    /\ iter = NoIter

ExportCall(fn, ord, name) ==
    [fn |-> fn, T |-> T_u8, rva |-> 0, len |-> 0, ord |-> ord, name |-> name]

SymbolByOrdinal ==
    \E ord \in {0, 1, 2, 3, 4, U16Mod - 1} :
        /\ call = NoCall
        /\ call' = ExportCall("symbol_by_ordinal", ord, <<>>)
        /\ ret' = symbol_by_ordinal(image, build, ExportDirectory(image), ord)
        /\ UNCHANGED <<image, build, iter>>
        /\ UNCHANGED openVars

SymbolByName ==
    \E name \in {<<97>>, <<98>>, <<99>>} :
        /\ call = NoCall
        /\ call' = ExportCall("symbol_by_name", 0, name)
        /\ ret' = symbol_by_name(image, build, ExportDirectory(image), name)
        /\ UNCHANGED <<image, build, iter>>
        /\ UNCHANGED openVars

NameFromOrdinal ==
    \E ord \in {0, 1, 2, 3, 4, U16Mod - 1} :
        /\ call = NoCall
        /\ call' = ExportCall("name_from_ordinal", ord, <<>>)
        /\ ret' = name_from_ordinal(image, build, ExportDirectory(image), ord)
        /\ UNCHANGED <<image, build, iter>>
        /\ UNCHANGED openVars

\* What is_forwarded returned: its kind is "true", "false" or "panic".
Answer(b) == [kind |-> b]

IsForwarded ==
    \E rva \in {0, 327, 328, 396, 401, 402, 404} :
        /\ call = NoCall
        /\ call' = [fn |-> "is_forwarded", T |-> T_u8, rva |-> rva, len |-> 0,
                    ord |-> 0, name |-> <<>>]
        /\ ret' = Answer(is_forwarded(image, build, ExportDirectory(image), rva))
        /\ UNCHANGED <<image, build, iter>>
        /\ UNCHANGED openVars

NextExports == SymbolByOrdinal \/ SymbolByName \/ NameFromOrdinal \/ IsForwarded

SpecExports == InitExports /\ [][NextExports]_vars

----------------------------------------------------------------------------
(* SpecExportIter: the iteration over the ordinals of an export directory. *)

\* The iteration is followed for at most MaxYield items.
MaxYield == 65540

ExportIterImages(bases, nfuns) ==
    { ExportImage(base, nfun, 368, <<404, 396, 0>>, 2, <<392, 394>>, <<0, 1>>, LE(74, 4))
      : base \in bases, nfun \in nfuns }

InitExportIter ==
    /\ image \in ExportIterImages({0, 1, 65534, 65535, 65537}, {0, 1, 3})
                   \cup ExportIterImages({0}, {65537})
    /\ build \in Builds
    /\ call = NoCall
    /\ ret = NoRef
    /\ file = [present |-> FALSE, bytes |-> <<>>]
    /\ fpos = 0 /\ buf = <<>> /\ pc = "idle" /\ loc = Loc0 /\ result = "none"
    /\ iter = NoIter

\* ExportDirectory::iter().
ExportIter ==
    /\ iter = NoIter
    /\ iter' = [NoIter EXCEPT !.kind = "exports", !.pos = 0, !.status = "running"]
    /\ UNCHANGED <<image, build, call, ret>>
    /\ UNCHANGED openVars

\* One call of next() on the iterator.
ExportIterNext ==
    /\ iter.kind = "exports" /\ iter.status = "running" /\ iter.n < MaxYield
    /\ LET r == export_iterator_next(image, build, ExportDirectory(image), iter.pos)
       IN  iter' = CASE r.kind = "None"  -> [iter EXCEPT !.status = "ended", !.item = <<>>]
                     [] r.kind = "Panic" -> [iter EXCEPT !.status = "panic", !.item = <<>>]
                     [] r.kind = "Some"  -> [iter EXCEPT !.pos = r.it, !.n = @ + 1,
                                                         !.item = <<r.ord>>]
    /\ UNCHANGED <<image, build, call, ret>>
    /\ UNCHANGED openVars

NextExportIter == ExportIter \/ ExportIterNext

SpecExportIter == InitExportIter /\ [][NextExportIter]_vars

----------------------------------------------------------------------------
(* SpecImports: iteration over the import directory of a mapped PE32 image *)
(* of 416 bytes: three descriptor slots at 312, 332 and 352, the import    *)
(* name table (four thunks) at 372, the import address table at 388, a     *)
(* hint/name entry (hint 7, name "f") at 404 and the string "d" at 408.    *)

\* ImportDirectory { view_, datadir_ }: the offset of the IMPORT entry of
\* the data directory.
ImportDirectory(im) ==
    [datadir_ |-> U32At(im, Off_e_lfanew) + Off_OptionalHeader + Off_DataDirectory
                    + IMAGE_DIRECTORY_ENTRY_IMPORT * SizeOf_ImageDataDirectory]

RECURSIVE Concat(_)
Concat(seqs) == IF seqs = <<>> THEN <<>> ELSE Head(seqs) \o Concat(Tail(seqs))

Desc(oft, tds, fc, name, ft) ==
    LE(oft, 4) \o LE(tds, 4) \o LE(fc, 4) \o LE(name, 4) \o LE(ft, 4)

ImportImage(descs, int, iat) ==
    LET nt == [Signature |-> IMAGE_NT_HEADERS_SIGNATURE, NumberOfSections |-> 0,
               SizeOfOptionalHeader |-> SizeOf_ImageOptionalHeader32,
               Magic |-> IMAGE_NT_OPTIONAL_HDR32_MAGIC, SizeOfImage |-> 416,
               SizeOfHeaders |-> 312,
               NumberOfRvaAndSizes |-> IMAGE_NUMBEROF_DIRECTORY_ENTRIES]
        dos == [e_magic |-> IMAGE_DOS_HEADER_MAGIC, e_lfanew |-> SizeOf_ImageDosHeader]
        b0 == Overlay([i \in 1..416 |-> Fill(i - 1)], SizeOf_ImageDosHeader, NtBytes(nt))
        b1 == Overlay(b0, 0, DosBytes(dos))
        b2 == Overlay(b1, ImportDirectory(b1).datadir_, LE(312, 4) \o LE(60, 4))
        b3 == Overlay(b2, 312, Concat(descs))
        b4 == Overlay(b3, 372, Concat(int))
        b5 == Overlay(b4, 388, Concat(iat))
    IN  Overlay(b5, 404, LE(7, 2) \o <<102, 0, 100, 0>>)

\* Thunks: by name (the entry at 404), by ordinal 261, the end, a hint/name
\* RVA that is odd, and one outside the image.
ThunkName == LE(404, 4)
ThunkOrdinal == <<5, 1, 0, 128>>
ThunkEnd == LE(0, 4)
ThunkOdd == LE(405, 4)
ThunkFar == LE(500, 4)

ImportTables ==
    { <<ThunkName, ThunkOrdinal, ThunkEnd, ThunkName>>,
      <<ThunkOrdinal, ThunkEnd, ThunkEnd, ThunkEnd>>,
      <<ThunkEnd, ThunkName, ThunkOrdinal, ThunkEnd>>,
      <<ThunkName, ThunkOdd, ThunkEnd, ThunkEnd>>,
      <<ThunkOrdinal, ThunkFar, ThunkEnd, ThunkEnd>>,
      <<ThunkOrdinal, ThunkOrdinal, ThunkName, ThunkOrdinal>> }

\* Descriptor tables: a descriptor, one with OriginalFirstThunk = 0, the
\* sentinel; the last table has no sentinel.
ImportDescriptors ==
    LET d1 == Desc(372, 0, 0, 408, 388)
        d2 == Desc(0, 0, 0, 408, 388)
        d3 == Desc(0, 1, 0, 0, 0)
        z  == Desc(0, 0, 0, 0, 0)
    IN  { <<d1, z>>, <<d2, d1, z>>, <<z, d1>>, <<d3, z>>, <<d1, d2>> }

InitImports ==
    /\ image \in { ImportImage(descs, int, iat)
                   : descs \in ImportDescriptors, int \in ImportTables,
                     iat \in ImportTables }
    /\ build \in Builds
    /\ call = NoCall
    /\ ret = NoRef
    /\ file = [present |-> FALSE, bytes |-> <<>>]
    /\ fpos = 0 /\ buf = <<>> /\ pc = "idle" /\ loc = Loc0 /\ result = "none"
    /\ iter = NoIter

\* The iterator after a call of next() that gave r.
Advance(it, r) ==
    CASE r.kind = "None"  -> [it EXCEPT !.status = "ended", !.item = <<>>]
      [] r.kind = "Panic" -> [it EXCEPT !.status = "panic", !.item = <<>>]
      [] r.kind = "Some"  -> [it EXCEPT !.pos = r.it, !.n = @ + 1, !.item = <<r.item>>]

\* ImportDirectory::iter()
ImportIter ==
    /\ iter = NoIter
    /\ iter' = [NoIter EXCEPT !.kind = "descriptors", !.status = "running",
                              !.pos = U32At(image, ImportDirectory(image).datadir_)]
    /\ UNCHANGED <<image, build, call, ret>>
    /\ UNCHANGED openVars

\* next() on the descriptor iterator, also after it has ended.
ImportDescriptorNext ==
    /\ iter.kind = "descriptors" /\ iter.status \in {"running", "ended"}
    /\ iter' = Advance(iter, import_descriptor_next(image, build, iter.pos))
    /\ UNCHANGED <<image, build, call, ret>>
    /\ UNCHANGED openVars

\* The thunk iterator int_iter() / iat_iter() makes on the descriptor at
\* desc: it starts at the descriptor's OriginalFirstThunk / FirstThunk.
ThunkIterator(im, kind, desc, field) ==
    [NoIter EXCEPT !.kind = kind, !.status = "running", !.desc = desc,
                   !.pos = U32At(im, desc + field)]

\* int_iter() on the descriptor yielded last (its thunk RVA is below 2^31).
IntIter ==
    /\ iter.kind = "descriptors" /\ iter.item # <<>>
    /\ Wide(image, iter.item[1] + Off_OriginalFirstThunk).hi < IMAGE_ORDINAL_FLAG32_hi
    /\ iter' = ThunkIterator(image, "int", iter.item[1], Off_OriginalFirstThunk)
    /\ UNCHANGED <<image, build, call, ret>>
    /\ UNCHANGED openVars

\* iat_iter() on the descriptor yielded last.
IatIter ==
    /\ iter.kind = "descriptors" /\ iter.item # <<>>
    /\ Wide(image, iter.item[1] + Off_FirstThunk).hi < IMAGE_ORDINAL_FLAG32_hi
    /\ iter' = ThunkIterator(image, "iat", iter.item[1], Off_FirstThunk)
    /\ UNCHANGED <<image, build, call, ret>>
    /\ UNCHANGED openVars

IntNext ==
    /\ iter.kind = "int" /\ iter.status \in {"running", "ended"}
    /\ iter' = Advance(iter, import_name_next(image, build, iter.pos))
    /\ UNCHANGED <<image, build, call, ret>>
    /\ UNCHANGED openVars

IatNext ==
    /\ iter.kind = "iat" /\ iter.status \in {"running", "ended"}
    /\ iter' = Advance(iter, import_table_next(image, build, iter.pos))
    /\ UNCHANGED <<image, build, call, ret>>
    /\ UNCHANGED openVars

NextImports ==
    ImportIter \/ ImportDescriptorNext \/ IntIter \/ IatIter \/ IntNext \/ IatNext

SpecImports == InitImports /\ [][NextImports]_vars

----------------------------------------------------------------------------
(* SpecRelocs: iteration over the base relocations of a mapped PE32+ image *)
(* of 416 bytes. The BASERELOC entry of the data directory is at 240; the  *)
(* blocks are laid out from 328 on and every byte after them is zero.      *)

\* A block: the page RVA (four bytes), SizeOfBlock and the 16-bit entries.
Block(page, size, words) ==
    page \o LE(size, 4) \o Concat([i \in 1..Len(words) |-> LE(words[i], 2)])

RelocImage(blocks, dirsize) ==
    LET b0 == MkImage(416, IMAGE_NUMBEROF_DIRECTORY_ENTRIES,
                      << <<IMAGE_DIRECTORY_ENTRY_EXPORT, 0, 0>>,
                         <<IMAGE_DIRECTORY_ENTRY_IMPORT, 0, 0>>,
                         <<IMAGE_DIRECTORY_ENTRY_RESOURCE, 0, 0>>,
                         <<IMAGE_DIRECTORY_ENTRY_BASERELOC, 328, 0>> >>)
        b1 == Overlay(b0, RelocsDirectory(b0).datadir_ + Off_Size, dirsize)
        b2 == Overlay(b1, 328, Zeros(416 - 328))
    IN  Overlay(b2, 328, Concat(blocks))

\* Page RVAs 0x1000, 0x2000 and 0xFFFFF800.
Page1 == LE(4096, 4)
Page2 == LE(8192, 4)
PageTop == <<0, 248, 255, 255>>

\* Block tables: two blocks of one DIR64 entry at offset 0x18; blocks of
\* two, one (and a byte of padding) and three entries; a block of
\* SizeOfBlock 9 before one of no entry at all (SizeOfBlock 8); a block of
\* SizeOfBlock 0; a block reaching past the image; a block on the last
\* page of the address space; a first block of SizeOfBlock 8.
RelocTables ==
    { << Block(Page1, 10, <<40984>>), Block(Page2, 10, <<40984>>) >>,
      << Block(Page1, 12, <<12292, 45055>>), Block(Page2, 11, <<40960>>), <<0>>,
         Block(Page1, 14, <<4095, 61440, 65535>>) >>,
      << Block(Page1, 9, <<>>), <<0>>, Block(Page2, 8, <<>>) >>,
      << Block(Page1, 10, <<40984>>), Block(Page2, 0, <<40984>>) >>,
      << Block(Page1, 10, <<40984>>), Block(Page2, 200, <<40984>>) >>,
      << Block(PageTop, 12, <<43007, 45055>>), Block(Page1, 76, <<40984>>) >>,
      << Block(Page1, 8, <<>>) >> }

\* Sizes of the directory: empty, ending inside a block, at the end of a
\* block, at the end of the image, and with VirtualAddress + Size above 2^32.
RelocSizes ==
    { LE(0, 4), LE(10, 4), LE(16, 4), LE(20, 4), LE(23, 4), LE(37, 4), LE(88, 4),
      <<255, 255, 255, 255>> }

InitRelocs ==
    /\ image \in { RelocImage(blocks, dirsize)
                   : blocks \in RelocTables, dirsize \in RelocSizes }
    /\ build \in Builds
    /\ call = NoCall
    /\ ret = NoRef
    /\ file = [present |-> FALSE, bytes |-> <<>>]
    /\ fpos = 0 /\ buf = <<>> /\ pc = "idle" /\ loc = Loc0 /\ result = "none"
    /\ iter = NoIter

\* RelocsDirectory::iter()
RelocsIter ==
    /\ iter = NoIter
    /\ iter' = [NoIter EXCEPT !.kind = "relocs", !.status = "running",
                              !.desc = RelocsDirectory(image).datadir_,
                              !.pos = U32At(image, RelocsDirectory(image).datadir_)]
    /\ UNCHANGED <<image, build, call, ret>>
    /\ UNCHANGED openVars

\* next() on the relocation iterator, also after it has ended.
RelocsNext ==
    /\ iter.kind = "relocs" /\ iter.status \in {"running", "ended"}
    /\ iter' = Advance(iter, relocs_iterator_next(image, build, iter.desc, iter.pos))
    /\ UNCHANGED <<image, build, call, ret>>
    /\ UNCHANGED openVars

\* rva_of and type_of on an entry of the block yielded last (call.self).
RelocEntry ==
    /\ iter.kind = "relocs" /\ iter.item # <<>>
    /\ \E i \in 0..(iter.item[1].len - 1) :
         LET block == iter.item[1].blocks_ + i * T_ImageBaseRelocBlock.size
             rva == rva_of(image, build, iter.item[1], block)
         IN  /\ call' = [fn |-> "rva_of", T |-> T_ImageBaseRelocBlock,
                         rva |-> block, len |-> 0, self |-> iter.item[1]]
             /\ ret' = IF rva.ok
                       THEN [kind |-> "Some", rva |-> rva.val,
                             type |-> type_of(image, block)]
                       ELSE [kind |-> "Panic", rva |-> WideOf(0),
                             type |-> type_of(image, block)]
    /\ UNCHANGED <<image, build, iter>>
    /\ UNCHANGED openVars

NextRelocs == RelocsIter \/ RelocsNext \/ RelocEntry

SpecRelocs == InitRelocs /\ [][NextRelocs]_vars

----------------------------------------------------------------------------
(* SpecResources: the recursive walk of the resource tree (the Display of  *)
(* the root entry) and calls of name, as_dir, as_data and data on the      *)
(* entry visited last. The image is a mapped PE32+ image of 448 bytes whose *)
(* resource slice starts at 328; the slice is zero where no structure is   *)
(* laid out.                                                               *)

\* The deepest nesting of calls of rec the model follows; it stands for
\* the call stack, which is exhausted at some depth.
MaxDepth == 34

DirHeader(named, ids) == Zeros(Off_NumberOfNamedEntries) \o LE(named, 2) \o LE(ids, 2)
DirEntry(name, offset) == name \o offset
Flagged(v) == LE(v, 3) \o <<128>>
DataEntry(offsetToData, size) == LE(offsetToData, 4) \o LE(size, 4) \o Zeros(8)

RECURSIVE Patched(_, _, _)
Patched(b, base, patches) ==
    IF patches = <<>> THEN b
    ELSE Patched(Overlay(b, base + Head(patches)[1], Head(patches)[2]), base,
                 Tail(patches))

ResourceImage(size, patches) ==
    LET b0 == MkImage(448, IMAGE_NUMBEROF_DIRECTORY_ENTRIES,
                      << <<IMAGE_DIRECTORY_ENTRY_EXPORT, 0, 0>>,
                         <<IMAGE_DIRECTORY_ENTRY_IMPORT, 0, 0>>,
                         <<IMAGE_DIRECTORY_ENTRY_RESOURCE, 328, size>>,
                         <<IMAGE_DIRECTORY_ENTRY_BASERELOC, 0, 0>> >>)
    IN  Patched(Overlay(b0, 328, Zeros(448 - 328)), 328, patches)

\* A tree of two levels: the root directory (a named entry that leads to
\* the directory at 32, an id entry that leads to the data entry at 72),
\* the directory at 32 with one data entry at 56, the name "A" at 96 and
\* the name "B" at the odd offset 109.
Tree(name, sub, leaf, data) ==
    << <<0, DirHeader(1, 1)>>,
       <<16, DirEntry(name, sub)>>,
       <<24, DirEntry(LE(65541, 4), leaf)>>,
       <<32, DirHeader(0, 1)>>,
       <<48, DirEntry(LE(7, 4), LE(56, 4))>>,
       <<56, DataEntry(428, 8)>>,
       <<72, data>>,
       <<96, LE(1, 2) \o LE(65, 2)>>,
       <<109, LE(1, 2) \o LE(66, 2)>> >>

\* Trees: names inside the slice, at an odd offset, with words or the length
\* past the end; a subdirectory inside the slice, with its header or its
\* entries past the end; data entries inside and outside; payloads that end
\* with the slice, one byte after it, start below vbase (with Size below and
\* above the distance); directories that lead back to themselves or to an
\* ancestor; a root directory whose entries do not fit.
ResourceTrees ==
    { Tree(name, Flagged(32), LE(72, 4), data)
      : name \in {Flagged(96), Flagged(109), Flagged(118), Flagged(119)},
        data \in {DataEntry(428, 20), DataEntry(428, 21), DataEntry(300, 8),
                  DataEntry(327, 2), DataEntry(448, 0)} }
    \cup
    { Tree(Flagged(96), sub, leaf, DataEntry(428, 20))
      : sub \in {Flagged(32), Flagged(112), Flagged(104), Flagged(200)},
        leaf \in {LE(72, 4), LE(104, 4), LE(105, 4)} }
    \cup
    { << <<0, DirHeader(0, 1)>>, <<16, DirEntry(LE(1, 4), Flagged(0))>> >>,
      << <<0, DirHeader(0, 1)>>, <<16, DirEntry(LE(1, 4), Flagged(32))>>,
         <<32, DirHeader(0, 2)>>, <<48, DirEntry(LE(2, 4), LE(72, 4))>>,
         <<56, DirEntry(LE(3, 4), Flagged(0))>>, <<72, DataEntry(428, 4)>> >>,
      << <<0, DirHeader(0, 20)>> >> }

InitResources ==
    /\ image \in { ResourceImage(size, patches)
                   : size \in {120, 8}, patches \in ResourceTrees }
    /\ build \in Builds
    /\ call = NoCall
    /\ ret = NoRef
    /\ file = [present |-> FALSE, bytes |-> <<>>]
    /\ fpos = 0 /\ buf = <<>> /\ pc = "idle" /\ loc = Loc0 /\ result = "none"
    /\ iter = NoIter

\* The entry visited last: the root entry, or the inline entry at iter.desc.
Visited == IF iter.n = 1 THEN ROOT_ENTRY
           ELSE EntryAt(image, Resources_new(image), iter.desc)

\* rec(f, path, e) up to its loop: name() when there is a path, then
\* entry(); a directory opens a frame [dir, it] of ResourceDirectoryIterator.
\* walk is the walk so far with e counted as visited.
Visit(walk, e) ==
    LET res == Resources_new(image)
        en == entry_of(image, res, build, e)
        seen == [walk EXCEPT !.desc = e.at, !.n = @ + 1]
    IN  \E nm \in IF e.inline THEN entry_name(image, res, build, e) ELSE {NameId(0)} :
          iter' = IF nm.kind = "Panic" \/ en.ref.kind # "Some"
                  THEN [seen EXCEPT !.status = "panic"]
                  ELSE IF en.kind = "DataEntry" THEN seen
                  ELSE IF Len(seen.item) >= MaxDepth
                  THEN [seen EXCEPT !.status = "overflow"]
                  ELSE [seen EXCEPT !.item = <<[dir |-> en.ref.off, it |-> 0]>> \o @]

\* write!(f, "{}", resources.root()): rec(f, None, root)
RecRoot ==
    /\ iter = NoIter
    /\ Visit([NoIter EXCEPT !.kind = "rec", !.status = "running"], ROOT_ENTRY)
    /\ UNCHANGED <<image, build, call, ret>>
    /\ UNCHANGED openVars

\* One turn of `for it in dir.iter()` in the innermost call of rec: the
\* next entry is visited, or the loop ends and rec returns.
RecNext ==
    /\ iter.kind = "rec" /\ iter.status = "running"
    /\ LET top == Head(iter.item)
           r == resource_directory_next(image, Resources_new(image), top.dir, top.it)
       IN  IF r.kind = "Some"
           THEN Visit([iter EXCEPT !.item = <<[top EXCEPT !.it = r.it]>> \o Tail(@)],
                      EntryAt(image, Resources_new(image), r.item))
           ELSE iter' = [iter EXCEPT !.item = Tail(@),
                                     !.status = IF Tail(iter.item) = <<>>
                                                THEN "done" ELSE "running"]
    /\ UNCHANGED <<image, build, call, ret>>
    /\ UNCHANGED openVars

ResourceCall(fn, e) == [fn |-> fn, T |-> T_u8, rva |-> e.at, len |-> 0, self |-> e]

\* name() on the entry visited last
EntryName ==
    /\ iter.kind = "rec"
    /\ \E nm \in entry_name(image, Resources_new(image), build, Visited) : ret' = nm
    /\ call' = ResourceCall("name", Visited)
    /\ UNCHANGED <<image, build, iter>>
    /\ UNCHANGED openVars

\* as_dir() on the entry visited last
EntryAsDir ==
    /\ iter.kind = "rec"
    /\ ret' = as_dir(image, Resources_new(image), build, Visited)
    /\ call' = ResourceCall("as_dir", Visited)
    /\ UNCHANGED <<image, build, iter>>
    /\ UNCHANGED openVars

\* as_data() on the entry visited last
EntryAsData ==
    /\ iter.kind = "rec"
    /\ ret' = as_data(image, Resources_new(image), build, Visited)
    /\ call' = ResourceCall("as_data", Visited)
    /\ UNCHANGED <<image, build, iter>>
    /\ UNCHANGED openVars

\* data() on the data entry as_data() gave
EntryData ==
    /\ call.fn = "as_data" /\ ret.kind = "Some"
    /\ ret' = resource_data(image, Resources_new(image), build, ret.off)
    /\ call' = [call EXCEPT !.fn = "data", !.rva = ret.off]
    /\ UNCHANGED <<image, build, iter>>
    /\ UNCHANGED openVars

NextResources ==
    RecRoot \/ RecNext \/ EntryName \/ EntryAsDir \/ EntryAsData \/ EntryData

SpecResources == InitResources /\ [][NextResources]_vars

----------------------------------------------------------------------------
(* SpecConv: address conversions on the headers of a mapped PE32+ image:   *)
(* SizeOfHeaders = 408, SizeOfImage = 0x4000, the section table at 328.    *)
(* One conversion is called on an input, and then possibly the opposite    *)
(* conversion on what the first one returned; iter keeps the first call.   *)

\* The u32 and the u64 with the given 16-bit limbs.
L32(lo, hi) == <<lo, hi>>
L64(w0, w1, w2, w3) == <<w0, w1, w2, w3>>

RECURSIVE LBytes(_)
LBytes(l) == IF l = <<>> THEN <<>> ELSE LE(Head(l), 2) \o LBytes(Tail(l))

\* A section header's fields as <<VirtualAddress, VirtualSize,
\* SizeOfRawData, PointerToRawData>>.
SecPatches(k, sec) ==
    LET at == k * SizeOf_ImageSectionHeader
    IN  << <<at + Off_VirtualAddress, LBytes(sec[1])>>,
           <<at + Off_VirtualSize, LBytes(sec[2])>>,
           <<at + Off_SizeOfRawData, LBytes(sec[3])>>,
           <<at + Off_PointerToRawData, LBytes(sec[4])>> >>

ConvImage(base, secs) ==
    LET b0 == MkImage(408, IMAGE_NUMBEROF_DIRECTORY_ENTRIES,
                      << <<IMAGE_DIRECTORY_ENTRY_EXPORT, 0, 0>>,
                         <<IMAGE_DIRECTORY_ENTRY_IMPORT, 0, 0>>,
                         <<IMAGE_DIRECTORY_ENTRY_RESOURCE, 0, 0>>,
                         <<IMAGE_DIRECTORY_ENTRY_BASERELOC, 0, 0>> >>)
        opt == optional_header(b0)
        b1 == Overlay(b0, U32At(b0, Off_e_lfanew) + Off_FileHeader + Off_NumberOfSections,
                      LE(Len(secs), 2))
        b2 == Overlay(b1, opt + Off_SizeOfHeaders, LE(408, 4))
        b3 == Overlay(b2, opt + Off_SizeOfImage, LE(16384, 4))
        b4 == Overlay(b3, opt + Off64_ImageBase, LBytes(base))
        b5 == Overlay(b4, 328, Zeros(408 - 328))
        b6 == IF Len(secs) >= 1 THEN Patched(b5, 328, SecPatches(0, secs[1])) ELSE b5
    IN  IF Len(secs) >= 2 THEN Patched(b6, 328, SecPatches(1, secs[2])) ELSE b6

\* Section tables: none; two disjoint sections; two whose virtual ranges
\* overlap; two whose raw ranges overlap; a zero-initialised section with
\* a raw size that reaches past 2^32; a section whose raw data ends past
\* 2^32 in the file; a section without raw data before a plain one.
SecA == <<L32(4096, 0), L32(1024, 0), L32(512, 0), L32(1024, 0)>>
SecB == <<L32(8192, 0), L32(512, 0), L32(512, 0), L32(1536, 0)>>
SecC == <<L32(4352, 0), L32(512, 0), L32(512, 0), L32(2048, 0)>>
SecD == <<L32(12288, 0), L32(512, 0), L32(512, 0), L32(1280, 0)>>
SecE == <<L32(61440, 65535), L32(8192, 0), L32(8192, 0), L32(0, 0)>>
SecF == <<L32(4096, 0), L32(512, 0), L32(512, 0), L32(65280, 65535)>>
SecG == <<L32(4096, 0), L32(1024, 0), L32(0, 0), L32(0, 0)>>

ConvTables ==
    { <<>>, <<SecA, SecB>>, <<SecA, SecC>>, <<SecA, SecD>>, <<SecE>>, <<SecF>>,
      <<SecG, SecB>> }

ConvBases ==
    { L64(0, 0, 0, 0), L64(1, 0, 0, 0), L64(0, 16384, 1, 0),
      L64(65535, 65535, 65535, 65535), L64(0, 0, 65535, 65535) }

ConvRvas ==
    { L32(0, 0), L32(1, 0), L32(4095, 0), L32(4096, 0), L32(4352, 0),
      L32(4607, 0), L32(4608, 0), L32(4864, 0), L32(5000, 0), L32(8192, 0),
      L32(8703, 0), L32(12544, 0), L32(63488, 65535), L32(65535, 65535) }

ConvOffsets ==
    { L64(0, 0, 0, 0), L64(1023, 0, 0, 0), L64(1024, 0, 0, 0),
      L64(1280, 0, 0, 0), L64(1535, 0, 0, 0), L64(1536, 0, 0, 0),
      L64(2047, 0, 0, 0), L64(2048, 0, 0, 0), L64(2560, 0, 0, 0),
      L64(4096, 0, 0, 0), L64(8191, 0, 0, 0), L64(65280, 65535, 0, 0),
      L64(0, 0, 1, 0), L64(255, 0, 1, 0) }

ConvVas ==
    { L64(0, 0, 0, 0), L64(1, 0, 0, 0), L64(4096, 0, 0, 0),
      L64(0, 16384, 1, 0), L64(4096, 16384, 1, 0), L64(65535, 16383, 1, 0),
      L64(4096, 16384, 2, 0), L64(65535, 65535, 65535, 65535),
      L64(5, 0, 0, 1) }

InitConv ==
    /\ image \in { ConvImage(base, secs) : base \in ConvBases, secs \in ConvTables }
    /\ build \in Builds
    /\ call = NoCall
    /\ ret = NoRef
    /\ file = [present |-> FALSE, bytes |-> <<>>]
    /\ fpos = 0 /\ buf = <<>> /\ pc = "idle" /\ loc = Loc0 /\ result = "none"
    /\ iter = NoIter

ConvCall(fn, arg) == [fn |-> fn, arg |-> arg]

\* The conversion is the first call of the run, or it is called on the
\* value the conversion `after` has just returned.
ConvFirst == call = NoCall
ConvSecond(after) == call.fn = after /\ iter = NoIter /\ ret.kind = "Some"
ConvKept == [kind |-> "conv", call |-> call, ret |-> ret]

RvaToFileOffset ==
    \/ \E rva \in ConvRvas :
        /\ ConvFirst
        /\ call' = ConvCall("rva_to_file_offset", rva)
        /\ ret' = rva_to_file_offset(image, build, rva)
        /\ UNCHANGED <<image, build, iter>> /\ UNCHANGED openVars
    \/  /\ ConvSecond("file_offset_to_rva")
        /\ call' = ConvCall("rva_to_file_offset", ret.val)
        /\ ret' = rva_to_file_offset(image, build, ret.val)
        /\ iter' = ConvKept
        /\ UNCHANGED <<image, build>> /\ UNCHANGED openVars

FileOffsetToRva ==
    \/ \E file_offset \in ConvOffsets :
        /\ ConvFirst
        /\ call' = ConvCall("file_offset_to_rva", file_offset)
        /\ ret' = file_offset_to_rva(image, build, file_offset)
        /\ UNCHANGED <<image, build, iter>> /\ UNCHANGED openVars
    \/  /\ ConvSecond("rva_to_file_offset")
        /\ call' = ConvCall("file_offset_to_rva", ret.val)
        /\ ret' = file_offset_to_rva(image, build, ret.val)
        /\ iter' = ConvKept
        /\ UNCHANGED <<image, build>> /\ UNCHANGED openVars

RvaToVa ==
    \/ \E rva \in ConvRvas :
        /\ ConvFirst
        /\ call' = ConvCall("rva_to_va", rva)
        /\ ret' = rva_to_va(image, build, rva)
        /\ UNCHANGED <<image, build, iter>> /\ UNCHANGED openVars
    \/  /\ ConvSecond("va_to_rva")
        /\ call' = ConvCall("rva_to_va", ret.val)
        /\ ret' = rva_to_va(image, build, ret.val)
        /\ iter' = ConvKept
        /\ UNCHANGED <<image, build>> /\ UNCHANGED openVars

VaToRva ==
    \/ \E va \in ConvVas :
        /\ ConvFirst
        /\ call' = ConvCall("va_to_rva", va)
        /\ ret' = va_to_rva(image, build, va)
        /\ UNCHANGED <<image, build, iter>> /\ UNCHANGED openVars
    \/  /\ ConvSecond("rva_to_va")
        /\ call' = ConvCall("va_to_rva", ret.val)
        /\ ret' = va_to_rva(image, build, ret.val)
        /\ iter' = ConvKept
        /\ UNCHANGED <<image, build>> /\ UNCHANGED openVars

NextConv == RvaToFileOffset \/ FileOffsetToRva \/ RvaToVa \/ VaToRva

SpecConv == InitConv /\ [][NextConv]_vars

----------------------------------------------------------------------------
(* Properties of the readers (SpecView).                                   *)

IsRangeCall == call.fn \in {"read_struct", "read_slice"}

\* The bytes the reference covers lie inside the buffer and rva is aligned.
InBoundsAligned ==
    /\ call.rva + call.T.size * call.len <= Len(image)
    /\ call.rva % call.T.align = 0

\* C1: read_struct<T>(rva) and read_slice<T>(rva, len) with a non-zero rva
\* return a reference only if rva + sizeof(T)*len <= buffer length and rva is
\* a multiple of alignof(T); in every other case the call is a hard failure,
\* also when sizeof(T)*len exceeds the buffer length.
C1_RefOnlyInBounds ==
    (IsRangeCall /\ call.rva # BADRVA) =>
        /\ ret.kind \in {"Some", "Panic"}
        /\ (ret.kind = "Some" => InBoundsAligned)
        /\ (~InBoundsAligned => ret.kind = "Panic")

\* C2: every reader called with rva = 0 returns None, without inspecting a
\* byte of the buffer and without a hard failure.
C2_BadRvaIsNone ==
    (call.fn # "none" /\ call.rva = BADRVA) => (ret.kind = "None" /\ ret.reads = {})

C2_Witness ==
    /\ call.fn = "read_slice" /\ call.rva = BADRVA /\ call.len = MaxCount
    /\ call.T = T_Va /\ image = <<>> /\ ret.kind = "None"

\* The offsets at or after rva, inside the buffer, that hold a NUL byte.
NulsFrom(rva) == {o \in 0..(Len(image) - 1) : o >= rva /\ At(image, o) = 0}

FirstNul(rva) == CHOOSE o \in NulsFrom(rva) : \A q \in NulsFrom(rva) : o <= q

StrCase == call.fn = "read_str" /\ call.rva # BADRVA

\* C3 as stated: read_str with a non-zero rva inspects only offsets in
\* [rva, buffer length); if a NUL lies at or after rva inside the buffer it
\* returns exactly the bytes from rva up to the first such NUL; otherwise it
\* is a hard failure.
C3_StrUpToNul ==
    StrCase =>
        /\ \A o \in ret.reads : o >= call.rva /\ o < Len(image)
        /\ IF NulsFrom(call.rva) # {}
           THEN /\ ret.kind = "Some"
                /\ ret.off = call.rva
                /\ ret.val = Bytes(image, call.rva, FirstNul(call.rva) - call.rva)
           ELSE ret.kind = "Panic"

\* C3 amended: as C3, but the bytes up to the first NUL are returned only
\* when they are well-formed UTF-8; when they are not, the call is a hard
\* failure too.
C3_StrUpToNulUtf8 ==
    StrCase =>
        /\ \A o \in ret.reads : o >= call.rva /\ o < Len(image)
        /\ IF NulsFrom(call.rva) # {}
              /\ from_utf8_ok(Bytes(image, call.rva, FirstNul(call.rva) - call.rva))
           THEN /\ ret.kind = "Some"
                /\ ret.off = call.rva
                /\ ret.size = FirstNul(call.rva) - call.rva
                /\ ret.val = Bytes(image, call.rva, FirstNul(call.rva) - call.rva)
           ELSE ret.kind = "Panic"

C3_Witness ==
    /\ StrCase /\ call.rva = 1
    /\ image = <<65, 195, 169, 0>>
    /\ ret.kind = "Some" /\ ret.val = <<195, 169>> /\ ret.reads = {1, 2, 3}

----------------------------------------------------------------------------
(* Properties of PeFile::open (SpecOpen), stated on the bytes of the file. *)

Returned == result # "none"

F_e_magic  == U16At(file.bytes, Off_e_magic)
F_e_lfanew == U32At(file.bytes, Off_e_lfanew)
F_opt      == F_e_lfanew + Off_OptionalHeader
F_Signature            == U32At(file.bytes, F_e_lfanew + Off_Signature)
F_Magic                == U16At(file.bytes, F_opt + Off_Magic)
F_SizeOfImage          == U32At(file.bytes, F_opt + Off_SizeOfImage)
F_SizeOfHeaders        == U32At(file.bytes, F_opt + Off_SizeOfHeaders)
F_NumberOfRvaAndSizes  == U32At(file.bytes, F_opt + Off_NumberOfRvaAndSizes)
F_NumberOfSections     ==
    U16At(file.bytes, F_e_lfanew + Off_FileHeader + Off_NumberOfSections)
F_SizeOfOptionalHeader ==
    U16At(file.bytes, F_e_lfanew + Off_FileHeader + Off_SizeOfOptionalHeader)
F_sec_begin == F_opt + F_SizeOfOptionalHeader
F_sec_end   == F_sec_begin + F_NumberOfSections * SizeOf_ImageSectionHeader
F_Section(k) == SectionAt(file.bytes, F_sec_begin, k)

\* C4: PeFile::open ends with Ok or with one of the errors Io, BadMagic and
\* Insanity; no file makes it end with a hard failure.
C4_OpenNeverPanics ==
    Returned => result \in {"Ok", "Io", "BadMagic", "Insanity"}

\* The DOS header, the NT headers, the section table and the data directory
\* as the view finds them in a buffer b.
ViewInvariants(b) ==
    LET e_lfanew == U32At(b, Off_e_lfanew)
        fh  == e_lfanew + Off_FileHeader
        opt == e_lfanew + Off_OptionalHeader
        sec_begin == opt + U16At(b, fh + Off_SizeOfOptionalHeader)
        sec_end   == sec_begin
                     + U16At(b, fh + Off_NumberOfSections) * SizeOf_ImageSectionHeader
        dir_end   == opt + Off_DataDirectory + 8 * U32At(b, opt + Off_NumberOfRvaAndSizes)
    IN  /\ SizeOf_ImageDosHeader <= Len(b)
        /\ U16At(b, Off_e_magic) = IMAGE_DOS_HEADER_MAGIC
        /\ e_lfanew + SizeOf_ImageNtHeaders32 <= Len(b)
        /\ U32At(b, e_lfanew + Off_Signature) = IMAGE_NT_HEADERS_SIGNATURE
        /\ U16At(b, opt + Off_Magic) = IMAGE_NT_OPTIONAL_HDR32_MAGIC
        /\ sec_end <= Len(b)
        /\ dir_end <= Len(b)
        /\ U32At(b, opt + Off_SizeOfImage) <= Len(b)

\* C5: when PeFile::open returns Ok, the buffer it hands to the view has the
\* DOS magic at offset 0, the NT headers at e_lfanew inside the buffer with
\* the PE signature and the PE32 optional-header magic, the section table and
\* the data directory inside the buffer, and SizeOfImage <= buffer length.
C5_OkBufferIsValidView ==
    result = "Ok" => ViewInvariants(buf)

C5_Witness ==
    /\ result = "Ok" /\ Len(buf) = 416
    /\ F_NumberOfSections = 1 /\ F_SizeOfOptionalHeader = 232
    /\ F_SizeOfHeaders = 392 /\ F_NumberOfRvaAndSizes = 16

DosInsane == F_e_lfanew = 0 \/ F_e_lfanew > 512

\* C6: once the DOS header is read, a file whose e_magic is not 0x5A4D ends
\* in BadMagic whatever its e_lfanew; with the magic right, e_lfanew = 0 or
\* e_lfanew > 0x200 ends in Insanity; otherwise the loader goes on to the NT
\* headers.
C6_DosStage ==
    /\ (pc = "check_dos" /\ Returned) =>
          /\ result \in {"BadMagic", "Insanity"}
          /\ (result = "BadMagic") = (F_e_magic # IMAGE_DOS_HEADER_MAGIC)
          /\ (result = "Insanity") = (F_e_magic = IMAGE_DOS_HEADER_MAGIC /\ DosInsane)
    /\ pc \in {"read_nt", "check_nt", "read_sections", "map_sections", "done"} =>
          /\ F_e_magic = IMAGE_DOS_HEADER_MAGIC
          /\ ~DosInsane
          /\ loc.e_lfanew = F_e_lfanew

\* A file with the byte-swapped magic 0x4D5A and a sane e_lfanew is BadMagic.
C6_Witness ==
    /\ pc = "check_dos" /\ result = "BadMagic"
    /\ F_e_magic = 19802 /\ F_e_lfanew = 512

NtBadMagic ==
    \/ F_Signature # IMAGE_NT_HEADERS_SIGNATURE
    \/ F_Magic # IMAGE_NT_OPTIONAL_HDR32_MAGIC

NtBoundExceeded ==
    \/ F_SizeOfHeaders > 4096
    \/ F_NumberOfRvaAndSizes > 16
    \/ F_SizeOfOptionalHeader < SizeOf_ImageOptionalHeader32
    \/ F_NumberOfSections > 100

SecInsane(k) ==
    F_Section(k).VirtualAddress < F_SizeOfHeaders \/ F_Section(k).VirtualSize = 0

\* C8: the sections are checked in table order; the loader returns Insanity
\* at the first section with VirtualAddress < SizeOfHeaders or VirtualSize =
\* 0, whatever its raw data; a section with VirtualAddress = SizeOfHeaders
\* and VirtualSize >= 1 is not rejected by this check.
C8_SectionSanity ==
    pc \in {"map_sections", "done"} =>
        /\ \A k \in 0..(loc.i - 1) : ~SecInsane(k)
        /\ (pc = "map_sections" /\ Returned) =>
              (result = "Insanity") = SecInsane(loc.i)
        /\ result = "Ok" => loc.i = F_NumberOfSections

\* The second section is rejected for VirtualSize = 0, with no raw data,
\* after a first section that sits right at SizeOfHeaders.
C8_Witness ==
    /\ pc = "map_sections" /\ result = "Insanity" /\ loc.i = 1
    /\ F_Section(0).VirtualAddress = F_SizeOfHeaders
    /\ F_Section(1) = Sec(408, 0, 0, 0)

SecIndexes == 0..(F_NumberOfSections - 1)

InRawRange(sec, o) ==
    o >= sec.VirtualAddress /\ o < sec.VirtualAddress + sec.SizeOfRawData

HasRaw(k) == F_Section(k).PointerToRawData # 0

Overwritten(k) ==
    \E j \in SecIndexes :
        /\ j > k /\ HasRaw(j)
        /\ LET a == F_Section(j)
               b == F_Section(k)
           IN  \E o \in 0..(Len(buf) - 1) : InRawRange(a, o) /\ InRawRange(b, o)

----------------------------------------------------------------------------
(* Properties of the decoder entry points (SpecDirs).                      *)

EntryFns == {"imports", "exports", "relocs", "resources"}

SlotOf(fn) ==
    CASE fn = "exports"   -> 0
      [] fn = "imports"   -> 1
      [] fn = "resources" -> 2
      [] fn = "relocs"    -> 5

\* The image's NumberOfRvaAndSizes and the entry of its data directory at
\* index k, read at their offsets: e_lfanew = 64, the optional header at
\* 64 + 24, NumberOfRvaAndSizes at +108, the entries of 8 bytes from +112.
I_NumberOfRvaAndSizes == U32At(image, 88 + 108)
I_SlotVirtualAddress(k) == U32At(image, 88 + 112 + 8 * k)
I_SlotSize(k) == U32At(image, 88 + 112 + 8 * k + 4)

\* The slot of the called entry point exists and its VirtualAddress is not 0.
SlotLive ==
    /\ SlotOf(call.fn) < I_NumberOfRvaAndSizes
    /\ I_SlotVirtualAddress(SlotOf(call.fn)) # 0

\* C10 as stated: each entry point returns a handle if and only if its slot
\* index is below NumberOfRvaAndSizes and the slot's VirtualAddress is not 0,
\* returns None otherwise, and is never a hard failure.
C10_HandleIffSlotLive ==
    call.fn \in EntryFns =>
        /\ (ret.kind = "Some") = SlotLive
        /\ (~SlotLive => ret.kind = "None")
        /\ ret.kind # "Panic"

\* C10 amended: with the slot missing or its VirtualAddress 0 every entry
\* point returns None, never a hard failure. With the slot live, imports()
\* and relocs() return a handle; exports() returns a handle if the export
\* directory record [VA, VA + 40) lies inside the buffer and is a hard
\* failure if not; resources() returns a handle if [VA, VA + Size) lies
\* inside the buffer and is a hard failure if it does not, except that with
\* Size larger than the buffer a build with wrapping arithmetic may return a
\* handle all the same (C1).
C10_EntryPoints ==
    call.fn \in EntryFns =>
        LET va   == I_SlotVirtualAddress(SlotOf(call.fn))
            size == I_SlotSize(SlotOf(call.fn))
        IN  /\ ~SlotLive => ret.kind = "None"
            /\ (SlotLive /\ call.fn \in {"imports", "relocs"}) =>
                  (ret.kind = "Some" /\ ret.off = va)
            /\ (SlotLive /\ call.fn = "exports") =>
                  IF va + T_ImageExportDirectory.size <= Len(image)
                  THEN ret.kind = "Some" /\ ret.off = va
                  ELSE ret.kind = "Panic"
            /\ (SlotLive /\ call.fn = "resources") =>
                  /\ ret.kind \in {"Some", "Panic"}
                  /\ va + size <= Len(image) => (ret.kind = "Some" /\ ret.off = va)
                  /\ (va + size > Len(image) /\ (size <= Len(image) \/ build = "debug"))
                        => ret.kind = "Panic"

\* exports() with the EXPORT slot the only one (NumberOfRvaAndSizes = 1) and
\* the record inside the buffer.
C10_Witness ==
    /\ call.fn = "exports" /\ ret.kind = "Some" /\ ret.off = 330
    /\ I_NumberOfRvaAndSizes = 1

----------------------------------------------------------------------------
(* Properties of the export directory (SpecExports), stated on the bytes   *)
(* of the image: the EXPORT entry of the data directory is at 200, the     *)
(* record at its VirtualAddress.                                           *)

X_VirtualAddress == U32At(image, 200)
X_Base == U32At(image, X_VirtualAddress + 16)
X_NumberOfFunctions == U32At(image, X_VirtualAddress + 20)
X_NumberOfNames == U32At(image, X_VirtualAddress + 24)
X_AddressOfFunctions == U32At(image, X_VirtualAddress + 28)
X_AddressOfNames == U32At(image, X_VirtualAddress + 32)
X_AddressOfNameOrdinals == U32At(image, X_VirtualAddress + 36)
X_Function(i) == U32At(image, X_AddressOfFunctions + 4 * i)
X_Name(i) == U32At(image, X_AddressOfNames + 4 * i)
X_NameIndex(i) == U16At(image, X_AddressOfNameOrdinals + 2 * i)

\* The directory's Size is below 2^31, so that VirtualAddress + Size is below 2^32.
X_SizeIsSmall == At(image, 207) < 128
X_Size == U32At(image, 204)
X_InExtent(rva) == X_VirtualAddress <= rva /\ rva < X_VirtualAddress + X_Size

\* The bytes from rva up to the first NUL.
RECURSIVE X_CStr(_)
X_CStr(rva) == IF At(image, rva) = 0 THEN <<>> ELSE <<At(image, rva)>> \o X_CStr(rva + 1)

\* What resolving the function-table entry rva is to give: forward or symbol.
X_Resolved(rva) ==
    IF X_InExtent(rva) THEN ExportForward(X_CStr(rva)) ELSE ExportSymbol(rva)

\* C11: with a function table, symbol_by_ordinal(ord) is none when ord < Base,
\* when ord - Base >= NumberOfFunctions and when functions[ord - Base] = 0;
\* otherwise it is forward (the string at that RVA) if the RVA lies in the
\* directory's extent and symbol (that RVA) if not.
C11_SymbolByOrdinal ==
    (call.fn = "symbol_by_ordinal" /\ X_AddressOfFunctions # 0 /\ X_SizeIsSmall) =>
        IF \/ call.ord < X_Base
           \/ call.ord - X_Base >= X_NumberOfFunctions
           \/ X_Function(call.ord - X_Base) = 0
        THEN ret = ExportNone
        ELSE ret = X_Resolved(X_Function(call.ord - X_Base))
\* The positions of the name table, and those whose string is name.
X_NamePositions == 0..(X_NumberOfNames - 1)
X_Matches(name) == { i \in X_NamePositions : X_CStr(X_Name(i)) = name }
X_First(S) == CHOOSE i \in S : \A j \in S : i <= j

\* The export tables exist and every entry of the name table is a string.
X_TablesReadable ==
    /\ X_AddressOfFunctions # 0 /\ X_AddressOfNames # 0 /\ X_AddressOfNameOrdinals # 0
    /\ \A i \in X_NamePositions : X_Name(i) # 0
    /\ X_SizeIsSmall

\* What the name at position i of the name table is to resolve to.
X_ResolvedAt(i) ==
    IF X_NameIndex(i) >= X_NumberOfFunctions \/ X_Function(X_NameIndex(i)) = 0
    THEN ExportNone
    ELSE X_Resolved(X_Function(X_NameIndex(i)))

\* C12: symbol_by_name(name) resolves functions[name_indices[i]] at the first
\* position i of the name table whose string equals name, with none when the
\* index is out of range of functions or the entry is 0; it is none when no
\* string equals name.
C12_SymbolByName ==
    (call.fn = "symbol_by_name" /\ X_TablesReadable) =>
        IF X_Matches(call.name) = {}
        THEN ret = ExportNone
        ELSE ret = X_ResolvedAt(X_First(X_Matches(call.name)))
\* The name table's strings are distinct, the name ordinals are distinct
\* and in range of the function table, and the entries they name are not 0.
X_WellFormedNames ==
    /\ X_TablesReadable
    /\ \A i, j \in X_NamePositions :
          i # j => /\ X_CStr(X_Name(i)) # X_CStr(X_Name(j))
                   /\ X_NameIndex(i) # X_NameIndex(j)
    /\ \A i \in X_NamePositions :
          /\ X_NameIndex(i) < X_NumberOfFunctions
          /\ X_Function(X_NameIndex(i)) # 0

\* C13: in a directory with well-formed names, for every position i of the
\* name table with name n and index idx, symbol_by_name(n) is not none, and
\* name_from_ordinal(idx + Base) is the same resolved symbol with name
\* Some(n).
C13_NameOrdinalRoundTrip ==
    X_WellFormedNames =>
        \A i \in X_NamePositions :
            /\ (call.fn = "symbol_by_name" /\ call.name = X_CStr(X_Name(i))) =>
                  (ret.kind # "None" /\ ret = X_ResolvedAt(i))
            /\ (call.fn = "name_from_ordinal" /\ call.ord = X_NameIndex(i) + X_Base) =>
                  /\ ret.kind = "Named"
                  /\ ret.symbol = X_ResolvedAt(i)
                  /\ ret.name = NameSome(X_CStr(X_Name(i)))
\* dir.VirtualAddress <= rva < dir.VirtualAddress + dir.Size, with the
\* EXPORT entry's Size at its full 32 bits and the sum not truncated.
X_InWideExtent(rva) ==
    /\ X_VirtualAddress <= rva
    /\ WideLess(WideOf(rva - X_VirtualAddress), Wide(image, 204))

\* C14: is_forwarded(rva) is true exactly when rva lies in the extent of the
\* EXPORT data-directory entry, and resolving a non-zero entry r of the
\* function table by ordinal is forward if and only if r lies in the extent,
\* and symbol otherwise.
C14_ForwardedIffInExtent ==
    /\ call.fn = "is_forwarded" =>
          ret.kind = (IF X_InWideExtent(call.rva) THEN "true" ELSE "false")
    /\ (/\ call.fn = "symbol_by_ordinal" /\ X_AddressOfFunctions # 0
        /\ call.ord >= X_Base /\ call.ord - X_Base < X_NumberOfFunctions
        /\ X_Base < U16Mod
        /\ X_Function(call.ord - X_Base) # 0) =>
          ret.kind = (IF X_InWideExtent(X_Function(call.ord - X_Base))
                      THEN "Forward" ELSE "Symbol")
\* C15: the export iterator yields, in order, the ordinals Base, Base + 1,
\* ..., Base + NumberOfFunctions - 1 (Base masked to 16 bits) and then ends:
\* it is never a hard failure, the k-th item is Base + k - 1, no more than
\* NumberOfFunctions items are yielded, and it ends after exactly that many.
C15_IterYieldsOrdinals ==
    iter.kind = "exports" =>
        /\ iter.status # "panic"
        /\ iter.n <= X_NumberOfFunctions
        /\ iter.item # <<>> => iter.item[1] = (X_Base % U16Mod) + iter.n - 1
        /\ iter.status = "ended" => iter.n = X_NumberOfFunctions

----------------------------------------------------------------------------
(* Properties of the import iterators (SpecImports), stated on the bytes   *)
(* of the image: the IMPORT entry of the data directory is at 192.         *)

M_VirtualAddress == U32At(image, 192)

\* The 20 bytes at offset at lie in the image and are all zero in the five
\* fields of a descriptor.
M_InImage(at, size) == at + size <= Len(image)
M_AllZero(at) == \A o \in at..(at + 19) : At(image, o) = 0

\* C16, in every state of a descriptor iteration: the n descriptors yielded
\* are those at the consecutive 20-byte positions from the directory's RVA,
\* none of them all zero (one with only OriginalFirstThunk = 0 is yielded);
\* the iteration ends only on a descriptor whose five fields are all zero and
\* is a hard failure only where the next descriptor leaves the buffer.
M_DescriptorsInOrder ==
    iter.kind = "descriptors" =>
        /\ iter.pos = M_VirtualAddress + 20 * iter.n
        /\ \A k \in 0..(iter.n - 1) :
              /\ M_InImage(M_VirtualAddress + 20 * k, 20)
              /\ ~M_AllZero(M_VirtualAddress + 20 * k)
        /\ iter.item # <<>> => iter.item[1] = iter.pos - 20
        /\ iter.status = "ended" => (M_InImage(iter.pos, 20) /\ M_AllZero(iter.pos))
        /\ iter.status = "panic" => ~M_InImage(iter.pos, 20)

\* C16: the descriptor iterator yields the descriptors in order up to the
\* first all-zero one, and once it has ended every further call of next()
\* leaves it ended at the same place.
C16_DescriptorIteration ==
    /\ []M_DescriptorsInOrder
    /\ [][(iter.kind = "descriptors" /\ iter.status = "ended") => iter' = iter]_vars

\* Two descriptors were yielded, the first with OriginalFirstThunk = 0 and
\* other fields set, and the iteration has ended on the sentinel after them.
C16_Witness ==
    /\ iter.kind = "descriptors" /\ iter.status = "ended" /\ iter.n = 2
    /\ U32At(image, 312) = 0 /\ U32At(image, 312 + 12) = 408
\* The thunk (4 bytes) at offset at: whether it can be read, is zero, has
\* bit 31 set; as an RVA when bit 31 is clear.
M_ThunkReadable(at) == at # 0 /\ at % 4 = 0 /\ M_InImage(at, 4)
M_ThunkZero(at) == \A o \in at..(at + 3) : At(image, o) = 0
M_ThunkFlag(at) == At(image, at + 3) >= 128
M_ThunkRva(at) == U32At(image, at)

\* A hint/name entry at rva can be read: the hint is aligned and inside the
\* image and a NUL ends a well-formed string after it.
M_HasNul(from) == \E o \in from..(Len(image) - 1) : At(image, o) = 0
RECURSIVE M_CStr(_)
M_CStr(rva) == IF At(image, rva) = 0 THEN <<>> ELSE <<At(image, rva)>> \o M_CStr(rva + 1)
M_HintNameReadable(rva) ==
    /\ rva % 2 = 0 /\ M_InImage(rva, 2)
    /\ M_HasNul(rva + 2) /\ from_utf8_ok(M_CStr(rva + 2))

\* The imported symbol the thunk at offset at stands for.
M_Symbol(at) ==
    IF M_ThunkFlag(at)
    THEN ByOrdinal(U16At(image, at))
    ELSE ByName(U16At(image, M_ThunkRva(at)), M_CStr(M_ThunkRva(at) + 2))

\* The first thunk of the running iterator: OriginalFirstThunk of its
\* descriptor for int_iter, FirstThunk for iat_iter.
M_Start ==
    IF iter.kind = "int" THEN U32At(image, iter.desc) ELSE U32At(image, iter.desc + 16)

\* The number of non-zero thunks from offset at up to the first zero thunk.
RECURSIVE M_ThunkCount(_)
M_ThunkCount(at) == IF M_ThunkZero(at) THEN 0 ELSE 1 + M_ThunkCount(at + 4)

----------------------------------------------------------------------------
(* Properties of the relocation iterator (SpecRelocs), stated on the bytes *)
(* of the image: the BASERELOC entry of the data directory is at 240.      *)

R_VirtualAddress == U32At(image, 240)
R_Size == Wide(image, 244)

\* k <= Size, for a k below 2^16.
R_Within(k) == R_Size.hi > 0 \/ k <= R_Size.lo

R_SizeOfBlock(p) == U32At(image, p + 4)

\* The sum of SizeOfBlock over the first k blocks of the chain that starts
\* at p.
RECURSIVE R_Sum(_, _)
R_Sum(p, k) ==
    IF k = 0 THEN 0 ELSE R_SizeOfBlock(p) + R_Sum(p + R_SizeOfBlock(p), k - 1)

\* C18: when the iteration has ended without a hard failure, the sum of
\* SizeOfBlock over the blocks it yielded is at most the directory's Size,
\* and no block it yields reaches past VirtualAddress + Size.
C18_BlocksWithinDirectory ==
    iter.kind = "relocs" =>
        /\ iter.status = "ended" => R_Within(R_Sum(R_VirtualAddress, iter.n))
        /\ iter.item # <<>> =>
             R_Within(iter.item[1].reloc_ + R_SizeOfBlock(iter.item[1].reloc_)
                        - R_VirtualAddress)

\* Position p is before the end of the directory: p < VirtualAddress + Size.
R_BeforeEnd(p) == ~(R_Size.hi = 0 /\ R_Size.lo <= p - R_VirtualAddress)

\* The iterator stands before the end on a header inside the image whose
\* SizeOfBlock is at most sizeof(ImageBaseRelocation).
R_OnSmallBlock ==
    /\ iter.kind = "relocs" /\ iter.status = "running"
    /\ R_BeforeEnd(iter.pos)
    /\ iter.pos + 8 <= Len(image)
    /\ R_SizeOfBlock(iter.pos) <= 8

\* C19: a step of the iterator that stands before the end of the directory
\* on a header with SizeOfBlock <= 8 is a hard failure: it yields no block
\* and leaves the position where it was.
C19_SmallBlockIsHardFailure ==
    [][(R_OnSmallBlock /\ iter' # iter) =>
          /\ iter'.status = "panic"
          /\ iter'.item = <<>>
          /\ iter'.n = iter.n
          /\ iter'.pos = iter.pos]_vars

\* A step that yields a block from position p: the block's header is the
\* one at p, its entries are the floor((SizeOfBlock - 8) / 2) words from
\* p + 8 on, and the position becomes p + SizeOfBlock.
R_StepYieldsBlock ==
    (iter.kind = "relocs" /\ iter'.n = iter.n + 1) =>
        /\ R_BeforeEnd(iter.pos)
        /\ iter'.item[1].reloc_ = iter.pos
        /\ iter'.item[1].blocks_ = iter.pos + 8
        /\ iter'.item[1].len = (R_SizeOfBlock(iter.pos) - 8) \div 2
        /\ iter'.pos = iter.pos + R_SizeOfBlock(iter.pos)

\* A step at or past VirtualAddress + Size ends the iteration.
R_StepEndsAtEnd ==
    (iter.kind = "relocs" /\ iter.status = "running" /\ ~R_BeforeEnd(iter.pos)
       /\ iter' # iter) =>
        /\ iter'.status = "ended"
        /\ iter'.item = <<>>
        /\ iter'.n = iter.n
        /\ iter'.pos = iter.pos

\* type_of is the high 4 bits of the word at call.rva and rva_of the page
\* RVA of the entry's block plus the low 12 bits of the word.
R_EntryDecoded ==
    call.fn = "rva_of" =>
        LET word == U16At(image, call.rva)
            page == Wide(image, call.self.reloc_)
            lo == page.lo + (word % 4096)
            hi == page.hi + (lo \div U16Mod)
        IN  /\ ret.kind = "Some"
            /\ ret.type = word \div 4096
            /\ ret.rva = [hi |-> hi, lo |-> lo % U16Mod]

\* C20: a successful step at p < VirtualAddress + Size yields the block at
\* p (page RVA from its header, floor((SizeOfBlock - 8) / 2) entries from
\* p + 8) and moves to p + SizeOfBlock; the iteration ends as soon as the
\* position is >= VirtualAddress + Size; type_of is the high 4 bits of an
\* entry and rva_of the page RVA plus its low 12 bits.
C20_BlocksAndEntries ==
    /\ [][R_StepYieldsBlock /\ R_StepEndsAtEnd]_vars
    /\ []R_EntryDecoded

----------------------------------------------------------------------------
(* Properties of the resource tree (SpecResources), stated on the bytes of *)
(* the image: the RESOURCE entry of the data directory is at 216, the      *)
(* slice is the Size bytes at its VirtualAddress.                          *)

S_VirtualAddress == U32At(image, 216)
S_Size == U32At(image, 220)

\* The 16-bit and 32-bit words at offset o of the slice.
S_U16(o) == U16At(image, S_VirtualAddress + o)
S_Wide(o) == Wide(image, S_VirtualAddress + o)

\* C21: the walk of the tree from the root never nests deeper than 32
\* directories and never exhausts the call stack: it is cut off at a
\* bounded depth, also when the Offset words form a cycle.
C21_WalkIsCutOff ==
    iter.kind = "rec" => (Len(iter.item) <= 32 /\ iter.status # "overflow")

\* The data entry at offset `at` of the slice names a payload inside the
\* slice: OffsetToData >= vbase and the Size bytes from OffsetToData - vbase
\* on end inside the slice.
S_PayloadInSlice(at) ==
    /\ U32At(image, S_VirtualAddress + at) >= S_VirtualAddress
    /\ U32At(image, S_VirtualAddress + at) - S_VirtualAddress
         + U32At(image, S_VirtualAddress + at + 4) <= S_Size

\* C22: data() returns the Size bytes at OffsetToData - vbase
\* when the payload lies inside the slice and an absent or empty payload,
\* not a hard failure, when it does not.
C22_DataOrAbsent ==
    call.fn = "data" =>
        IF S_PayloadInSlice(call.rva)
        THEN /\ ret.kind = "Some"
             /\ ret.off = U32At(image, S_VirtualAddress + call.rva) - S_VirtualAddress
             /\ ret.size = U32At(image, S_VirtualAddress + call.rva + 4)
        ELSE ret.kind = "None" \/ (ret.kind = "Some" /\ ret.size = 0)

\* The directory at offset o lies inside the slice: its header, and the
\* header with its NumberOfNamedEntries + NumberOfIdEntries entries.
S_DirInSlice(o) ==
    /\ o + 16 <= S_Size
    /\ o + 16 + 8 * (S_U16(o + 12) + S_U16(o + 14)) <= S_Size

\* The length-prefixed UTF-16 string at offset o lies inside the slice, and
\* its words.
S_StrInSlice(o) == o + 2 <= S_Size /\ o + 2 + 2 * S_U16(o) <= S_Size
S_Str(o) == [i \in 1..S_U16(o) |-> S_U16(o + 2 * i)]

\* Bit 31 of a word and its low 31 bits.
S_Bit31(w) == w.hi >= 32768
S_Low31(w) == (w.hi % 32768) * 65536 + w.lo

\* C23 as claimed: as_dir() is present iff Offset has bit 31 set and is then
\* the directory at Offset & 0x7FFFFFFF; otherwise as_data() is present and
\* is the data entry at Offset; name() is the string at Name & 0x7FFFFFFF
\* when Name has bit 31 set and the id Name & 0xFFFF otherwise; the root
\* entry is a directory at offset 0.
C23_DirXorData ==
    /\ call.fn = "as_dir" =>
         IF S_Bit31(call.self.Offset)
         THEN ret.kind = "Some" /\ ret.off = S_Low31(call.self.Offset)
         ELSE ret.kind = "None"
    /\ call.fn = "as_data" =>
         IF S_Bit31(call.self.Offset)
         THEN ret.kind = "None"
         ELSE ret.kind = "Some" /\ ret.off = S_Low31(call.self.Offset)
    /\ call.fn = "name" =>
         IF S_Bit31(call.self.Name)
         THEN /\ ret.kind = "Name"
              /\ S_StrInSlice(S_Low31(call.self.Name))
              /\ ret.name = S_Str(S_Low31(call.self.Name))
         ELSE ret.kind = "Id" /\ ret.id = call.self.Name.lo
    /\ (call.fn = "as_dir" /\ ~call.self.inline) => (ret.kind = "Some" /\ ret.off = 0)

\* C23, amended: as C23_DirXorData when the directory, the data entry or
\* the string lies inside the slice; a hard failure when it does not; at an
\* odd address name() gives the string or is a hard failure.
C23_EntryKinds ==
    /\ call.fn = "as_dir" =>
         IF ~S_Bit31(call.self.Offset) THEN ret.kind = "None"
         ELSE IF S_DirInSlice(S_Low31(call.self.Offset))
         THEN ret.kind = "Some" /\ ret.off = S_Low31(call.self.Offset)
         ELSE ret.kind = "Panic"
    /\ call.fn = "as_data" =>
         IF S_Bit31(call.self.Offset) THEN ret.kind = "None"
         ELSE IF S_Low31(call.self.Offset) + 16 <= S_Size
         THEN ret.kind = "Some" /\ ret.off = S_Low31(call.self.Offset)
         ELSE ret.kind = "Panic"
    /\ call.fn = "name" =>
         IF ~S_Bit31(call.self.Name)
         THEN ret.kind = "Id" /\ ret.id = call.self.Name.lo
         ELSE IF ~S_StrInSlice(S_Low31(call.self.Name)) THEN ret.kind = "Panic"
         ELSE \/ ret.kind = "Name" /\ ret.name = S_Str(S_Low31(call.self.Name))
              \/ /\ ret.kind = "Panic"
                 /\ (S_VirtualAddress + S_Low31(call.self.Name)) % 2 = 1
    /\ (call.fn = "as_dir" /\ ~call.self.inline) =>
         IF S_DirInSlice(0) THEN ret.kind = "Some" /\ ret.off = 0
         ELSE ret.kind = "Panic"

\* as_dir() was called on an entry of the root directory whose Offset has
\* bit 31 set and leads outside the slice.
C23_Witness ==
    /\ call.fn = "as_dir" /\ call.self.inline
    /\ S_Bit31(call.self.Offset)
    /\ ~S_DirInSlice(S_Low31(call.self.Offset))
    /\ call.self.Offset = S_Wide(call.rva + 4)
    /\ ret.kind = "Panic"

\* NumberOfNamedEntries + NumberOfIdEntries of the directory at offset o.
S_Count(o) == S_U16(o + 12) + S_U16(o + 14)

\* Every directory as_dir() gave (the result of a call, and every directory
\* the walk has open) lies inside the slice with all its entries, and a call
\* of as_dir() on a directory that does not is a hard failure.
S_DirectoriesInSlice ==
    /\ (call.fn = "as_dir" /\ ret.kind = "Some") =>
         (S_DirInSlice(ret.off) /\ ret.size = 16 + 8 * S_Count(ret.off))
    /\ (call.fn = "as_dir" /\ S_Bit31(call.self.Offset)
          /\ ~S_DirInSlice(S_Low31(call.self.Offset))) => ret.kind = "Panic"
    /\ iter.kind = "rec" =>
         \A k \in 1..Len(iter.item) :
            S_DirInSlice(iter.item[k].dir) /\ iter.item[k].it <= S_Count(iter.item[k].dir)

\* A step of the iteration over the innermost open directory yields the
\* entry after the one yielded before, in stored order and from inside the
\* slice, provided it has yielded fewer than the directory's count.
S_YieldsInOrder ==
    (iter.kind = "rec" /\ iter'.n = iter.n + 1) =>
        LET top == Head(iter.item)
            k == Len(iter'.item) - Len(iter.item) + 1
        IN  /\ top.it < S_Count(top.dir)
            /\ iter'.desc = top.dir + 16 + 8 * top.it
            /\ iter'.desc + 8 <= S_Size
            /\ iter'.item[k] = [dir |-> top.dir, it |-> top.it + 1]

\* The iteration over a directory ends only when it has yielded as many
\* entries as the directory's count.
S_EndsAtCount ==
    (iter.kind = "rec" /\ Len(iter'.item) < Len(iter.item)) =>
        Head(iter.item).it = S_Count(Head(iter.item).dir)

\* C29: a directory as_dir() returns lies inside the resource slice with
\* its header and all its NumberOfNamedEntries + NumberOfIdEntries entries
\* (as_dir is a hard failure otherwise), and iterating it yields exactly
\* that many entries, in stored order, each from inside the slice.
C29_DirectoryEntries ==
    /\ []S_DirectoriesInSlice
    /\ [][S_YieldsInOrder /\ S_EndsAtCount]_vars

\* The walk has left a directory of one entry and has yielded both entries
\* of the root directory.
C29_Witness ==
    /\ iter.kind = "rec" /\ iter.n = 4
    /\ Len(iter.item) = 1
    /\ Head(iter.item).it = 2
    /\ S_Count(Head(iter.item).dir) = 2
    /\ iter.desc = 24

----------------------------------------------------------------------------
(* Properties of the address conversions (SpecConv), stated on the bytes   *)
(* of the headers. Sums and differences are taken at 80 bits, where they   *)
(* are exact.                                                              *)

A_Exact(x) == [i \in 1..5 |-> IF i <= Len(x) THEN x[i] ELSE 0]
A_Sum(a, b) == checked_add("release", A_Exact(a), A_Exact(b)).val
A_Diff(a, b) == checked_sub("release", A_Exact(a), A_Exact(b)).val
A_Less(a, b) == LLess(A_Exact(a), A_Exact(b))
A_LessEq(a, b) == ~A_Less(b, a)

A_opt == U32At(image, 60) + 24
A_ImageBase == Limbs(image, A_opt + 24, 4)
A_SizeOfImage == Limbs(image, A_opt + 56, 2)
A_SizeOfHeaders == Limbs(image, A_opt + 60, 2)
A_NumberOfSections == U16At(image, U32At(image, 60) + 6)
A_Section(k) == A_opt + U16At(image, U32At(image, 60) + 20) + 40 * k
A_VirtualSize(k) == Limbs(image, A_Section(k) + 8, 2)
A_VirtualAddress(k) == Limbs(image, A_Section(k) + 12, 2)
A_SizeOfRawData(k) == Limbs(image, A_Section(k) + 16, 2)
A_PointerToRawData(k) == Limbs(image, A_Section(k) + 20, 2)

\* Section k covers rva with its raw-sized virtual range, and covers the
\* file offset with its raw range.
A_CoversRva(k, rva) ==
    /\ A_LessEq(A_VirtualAddress(k), rva)
    /\ A_Less(rva, A_Sum(A_VirtualAddress(k), A_SizeOfRawData(k)))

A_CoversOffset(k, off) ==
    /\ A_LessEq(A_PointerToRawData(k), off)
    /\ A_Less(off, A_Sum(A_PointerToRawData(k), A_SizeOfRawData(k)))

A_Sections == 0..(A_NumberOfSections - 1)

\* The loader maps the table: every section lies at or above SizeOfHeaders
\* with a non-zero VirtualSize, and the raw data of a section that has some
\* fits the image.
A_Accepted ==
    \A k \in A_Sections :
        /\ A_LessEq(A_SizeOfHeaders, A_VirtualAddress(k))
        /\ A_VirtualSize(k) # <<0, 0>>
        /\ \/ A_PointerToRawData(k) = <<0, 0>>
           \/ A_LessEq(A_Sum(A_VirtualAddress(k), A_SizeOfRawData(k)), A_SizeOfImage)

\* C24: on a section table the loader accepts, file_offset_to_rva of a file
\* offset inside some section's raw range is a non-absent rva, and
\* rva_to_file_offset of that rva is the offset again.
C24_OffsetRoundTrip ==
    /\ (call.fn = "file_offset_to_rva" /\ iter = NoIter /\ A_Accepted
          /\ \E k \in A_Sections : A_CoversOffset(k, call.arg))
       => (ret.kind = "Some" /\ ret.val # <<0, 0>>)
    /\ (call.fn = "rva_to_file_offset" /\ iter.kind = "conv" /\ A_Accepted
          /\ \E k \in A_Sections : A_CoversOffset(k, iter.call.arg))
       => (ret.kind = "Some" /\ ret.val = iter.call.arg)

\* C25: rva_to_file_offset returns PointerToRawData + (rva - VirtualAddress)
\* of the first section in table order with
\* VirtualAddress <= rva < VirtualAddress + SizeOfRawData, the sum taken
\* exactly, and absent when no section covers rva.
C25_FirstCoveringSection ==
    (call.fn = "rva_to_file_offset" /\ iter = NoIter)
    => LET covering == {k \in A_Sections : A_CoversRva(k, call.arg)}
       IN  IF covering = {} THEN ret.kind = "None"
           ELSE LET k == CHOOSE c \in covering : \A d \in covering : c <= d
                IN  /\ ret.kind = "Some"
                    /\ A_Exact(ret.val) =
                         A_Sum(A_PointerToRawData(k),
                               A_Diff(call.arg, A_VirtualAddress(k)))

\* C26: rva_to_va(0) = 0 and va_to_rva(0) = 0; for a non-zero rva,
\* rva_to_va(rva) = ImageBase + rva and va_to_rva of that is rva again.
C26_VaRoundTrip ==
    /\ (call.fn = "rva_to_va" /\ call.arg = <<0, 0>>)
       => (ret.kind = "Some" /\ ret.val = <<0, 0, 0, 0>>)
    /\ (call.fn = "va_to_rva" /\ call.arg = <<0, 0, 0, 0>>)
       => (ret.kind = "Some" /\ ret.val = <<0, 0>>)
    /\ (call.fn = "rva_to_va" /\ iter = NoIter /\ call.arg # <<0, 0>>)
       => (ret.kind = "Some" /\ A_Exact(ret.val) = A_Sum(A_ImageBase, call.arg))
    /\ (call.fn = "va_to_rva" /\ iter.kind = "conv" /\ iter.call.arg # <<0, 0>>)
       => (ret.kind = "Some" /\ ret.val = iter.call.arg)

\* C27: va_to_rva(va) is absent (0) when va < ImageBase or va - ImageBase
\* does not fit in 32 bits.
C27_VaOutOfRangeIsAbsent ==
    (call.fn = "va_to_rva"
       /\ \/ A_Less(call.arg, A_ImageBase)
          \/ ~A_Less(A_Diff(call.arg, A_ImageBase), <<0, 0, 1>>))
    => (ret.kind = "Some" /\ ret.val = <<0, 0>>)

\* The positions of the name table whose name ordinal is ord - Base.
X_OrdinalPositions(ord) ==
    IF X_AddressOfNames = 0 \/ X_AddressOfNameOrdinals = 0 THEN {}
    ELSE { i \in X_NamePositions : X_NameIndex(i) = ord - X_Base }

\* C28: name_from_ordinal(ord) returns ord, the symbol symbol_by_ordinal(ord)
\* returns, and as name the string of the first position of the name table
\* whose name ordinal is ord - Base when the symbol is not none and such a
\* position exists, and no name otherwise.
C28_NameFromOrdinalAgrees ==
    call.fn = "name_from_ordinal" =>
        /\ ret.kind = "Named"
        /\ ret.ord = call.ord
        /\ ret.symbol = symbol_by_ordinal(image, build, ExportDirectory(image), call.ord)
        /\ ret.name = IF ret.symbol.kind = "None" \/ X_OrdinalPositions(call.ord) = {}
                      THEN NameNone
                      ELSE NameSome(X_CStr(X_Name(X_First(X_OrdinalPositions(call.ord)))))

\* C30: when open returns Ok the first SizeOfHeaders bytes of the buffer are
\* the first SizeOfHeaders bytes of the file, and no step of map_sections
\* that goes on changes a byte below SizeOfHeaders, the section table the
\* loop reads among them.
C30_HeadersKept ==
    /\ [](result = "Ok" =>
            \A o \in 0..(F_SizeOfHeaders - 1) : At(buf, o) = At(file.bytes, o))
    /\ [][(pc = "map_sections" /\ result = "none" /\ result' \in {"none", "Ok"}) =>
            /\ Len(buf') = Len(buf)
            /\ \A o \in 0..(loc.hdr_bytes - 1) : At(buf', o) = At(buf, o)]_vars

\* Two sections with raw data, the first one right at SizeOfHeaders.
C30_Witness ==
    /\ result = "Ok" /\ F_NumberOfSections = 2 /\ F_SizeOfHeaders = 400
    /\ F_Section(0) = Sec(400, 8, 424, 8)
    /\ F_Section(1) = Sec(408, 8, 424, 8)
    /\ Bytes(buf, 0, 400) = Bytes(file.bytes, 0, 400)
    /\ Bytes(buf, 400, 8) = Bytes(file.bytes, 424, 8)

====
